---------------------------- MODULE Spec2Model ----------------------------
(***************************************************************************)
(* Race-pace projection engine of the fitness tracker: the goal pace       *)
(* solver (GoalPaceSolver), the grade / running-economy / altitude models  *)
(* it calls, and the lap calculator (LapCalculator) that consumes its      *)
(* result.                                                                 *)
(*                                                                         *)
(* The source computes in IEEE doubles.  Here every quantity is a          *)
(* fixed-point integer, rounded to nearest after each division:            *)
(*   distance            metres                                            *)
(*   elevation           centimetres                                       *)
(*   speed               millimetres per second                            *)
(*   time                milliseconds                                      *)
(*   grade               1/10000  (0.05 = 500)                             *)
(*   energy cost         mJ/kg/m,  metabolic power  mW/kg                  *)
(*   altitude factor     1/100000 (1.0 = 100000)                           *)
(***************************************************************************)
EXTENDS Integers, Sequences, FiniteSets, TLC

-----------------------------------------------------------------------------
(* Arithmetic helpers *)

Abs(x) == IF x < 0 THEN -x ELSE x

Min(a, b) == IF a <= b THEN a ELSE b

Max(a, b) == IF a >= b THEN a ELSE b

\* a / b for a >= 0, b > 0, rounded to the nearest integer
RDivNat(a, b) ==
    LET q == a \div b
        r == a % b
    IN  IF r >= b - r THEN q + 1 ELSE q

\* a / b for b > 0, rounded to the nearest integer (half away from zero)
RDiv(a, b) == IF a >= 0 THEN RDivNat(a, b) ELSE -RDivNat(-a, b)

\* a / b for any b # 0
SDiv(a, b) == IF b > 0 THEN RDiv(a, b) ELSE RDiv(-a, -b)

\* <<quotient, remainder>> of t[1] * t[2] by t[3], for t[1], t[2] >= 0 and
\* 0 < t[3] < 2^30, by binary long multiplication: no intermediate value
\* exceeds 32 bits
MulDivRem[t \in Nat \X Nat \X Nat] ==
    IF t[2] = 0 THEN << 0, 0 >>
    ELSE LET h  == MulDivRem[<< t[1], t[2] \div 2, t[3] >>]
             q2 == (2 * h[1]) + ((2 * h[2]) \div t[3])
             r2 == (2 * h[2]) % t[3]
             s2 == r2 + (t[1] % t[3])
         IN  IF t[2] % 2 = 0 THEN << q2, r2 >>
             ELSE << q2 + (t[1] \div t[3]) + (s2 \div t[3]), s2 % t[3] >>

\* a * b / c for a, b >= 0 and c > 0, rounded to the nearest integer
MulDiv(a, b, c) ==
    IF a = 0 \/ b = 0 THEN 0
    ELSE IF a <= (2 ^ 30) \div b THEN RDivNat(a * b, c)
    ELSE LET h == MulDivRem[<< Max(a, b), Min(a, b), c >>]
         IN  IF h[2] >= c - h[2] THEN h[1] + 1 ELSE h[1]

\* a * b / c for any a, b and c > 0, rounded to the nearest integer
SMulDiv(a, b, c) ==
    IF (a < 0) = (b < 0) THEN MulDiv(Abs(a), Abs(b), c)
    ELSE -MulDiv(Abs(a), Abs(b), c)

\* the out-of-range signal of the table lookups (costs and powers are positive)
NaN == 0 - 1

-----------------------------------------------------------------------------
(* Running-economy table: flat-ground speed, cost per distance, power.     *)
(* The rows satisfy power = cost * speed.                                  *)

BLACK_GAM_DATA ==
    [ speed_m_s     |-> << 2000, 2500, 3000, 3500, 4000, 4500, 5000, 5500 >>,
      energy_j_kg_m |-> << 3800, 3840, 3880, 3920, 3960, 4000, 4040, 4080 >>,
      energy_j_kg_s |-> << 7600, 9600, 11640, 13720, 15840, 18000, 20200, 22440 >> ]

\* the first row i with speed[i] <= speedMs <= speed[i+1], else the last index
RECURSIVE FindRow(_, _, _)
FindRow(xs, x, i) ==
    IF i >= Len(xs) THEN i
    ELSE IF x >= xs[i] /\ x <= xs[i + 1] THEN i
    ELSE FindRow(xs, x, i + 1)

lookupSpeed(speedMs, column) ==
    LET speed  == BLACK_GAM_DATA.speed_m_s
        energy == BLACK_GAM_DATA[column]
    IN  IF speedMs < speed[1] \/ speedMs > speed[Len(speed)] THEN NaN
        ELSE LET i == FindRow(speed, speedMs, 1)
             IN  energy[i] + RDiv((energy[i + 1] - energy[i]) * (speedMs - speed[i]),
                                  speed[i + 1] - speed[i])

\* the inverse lookup without the interpolation: the speed of the row found
getEquivFlatSpeed_RowSpeed(wKg) ==
    LET speed    == BLACK_GAM_DATA.speed_m_s
        metPower == BLACK_GAM_DATA.energy_j_kg_s
    IN  IF wKg < metPower[1] \/ wKg > metPower[Len(metPower)] THEN NaN
        ELSE speed[FindRow(metPower, wKg, 1)]

getEquivFlatSpeed(wKg) ==
    LET speed    == BLACK_GAM_DATA.speed_m_s
        metPower == BLACK_GAM_DATA.energy_j_kg_s
    IN  IF wKg < metPower[1] \/ wKg > metPower[Len(metPower)] THEN NaN
        ELSE LET i == FindRow(metPower, wKg, 1)
             IN  speed[i] + RDiv((speed[i + 1] - speed[i]) * (wKg - metPower[i]),
                                 metPower[i + 1] - metPower[i])

-----------------------------------------------------------------------------
(* Grade cost model: Minetti's quintic, grade in 1/10000, result in mJ/kg/m *)

GradeScale == 10 ^ 4

calcDeltaEC(grade) ==
    LET g  == grade
        g2 == SDiv(g * g, GradeScale)
        g3 == SDiv(g2 * g, GradeScale)
        g4 == SDiv(g3 * g, GradeScale)
        g5 == SDiv(g4 * g, GradeScale)
    IN  SDiv(1554 * g5 - 304 * g4 - 433 * g3 + 463 * g2 + 195 * g, 100)

-----------------------------------------------------------------------------
(* Altitude model *)

\* 304.8 m per increment, in centimetres
ALTITUDE_INCREMENT_METERS == 30480

\* 0.01 per increment, in 1/100000
DEGRADATION_PER_INCREMENT == 1000

AltScale == 10 ^ 5

\* the penalty taken from sea level, whatever the baseline
calculateAltitudePenalty_FromSeaLevel(segmentElevation, baselineElevation) ==
    AltScale + SDiv(segmentElevation * DEGRADATION_PER_INCREMENT,
                    ALTITUDE_INCREMENT_METERS)

\* 1 + (altitudeDiff / ALTITUDE_INCREMENT_METERS) * DEGRADATION_PER_INCREMENT
calculateAltitudePenalty(segmentElevation, baselineElevation) ==
    LET altitudeDiff == segmentElevation - baselineElevation
    IN  AltScale + SDiv(altitudeDiff * DEGRADATION_PER_INCREMENT,
                        ALTITUDE_INCREMENT_METERS)

-----------------------------------------------------------------------------
(* Route model (GPXParser).  A route is its sequence of points, each with   *)
(* the cumulative distance from the start and the elevation; consecutive   *)
(* points are a positive horizontal distance apart.                        *)

Point(d, e) == [distance |-> d, elevation |-> e]

totalDistance(gpx) == gpx[Len(gpx)].distance

\* segment i lies between points i and i + 1
Segment(gpx, i) ==
    [ startDistance      |-> gpx[i].distance,
      endDistance        |-> gpx[i + 1].distance,
      horizontalDistance |-> gpx[i + 1].distance - gpx[i].distance,
      elevationChange    |-> gpx[i + 1].elevation - gpx[i].elevation,
      startElevation     |-> gpx[i].elevation,
      grade              |-> RDiv((gpx[i + 1].elevation - gpx[i].elevation) * 100,
                                  gpx[i + 1].distance - gpx[i].distance) ]

\* (concatenation makes the sequence an evaluated tuple)
segments(gpx) == [i \in 1..(Len(gpx) - 1) |-> Segment(gpx, i)] \o << >>

\* the length of the part of segment seg inside [startDist, endDist]
Overlap(seg, startDist, endDist) ==
    Max(0, Min(seg.endDistance, endDist) - Max(seg.startDistance, startDist))

\* elevation on segment seg at distance d, linearly interpolated
ElevationOn(seg, d) ==
    seg.startElevation
      + RDiv(seg.elevationChange * (d - seg.startDistance), seg.horizontalDistance)

RECURSIVE SeqSum(_)
SeqSum(xs) == IF xs = << >> THEN 0 ELSE Head(xs) + SeqSum(Tail(xs))

\* distance-weighted mean grade over [startDist, endDist], 0 off the route
getAverageGrade(gpx, startDist, endDist) ==
    LET segs == segments(gpx)
        w    == SeqSum([i \in 1..Len(segs) |-> Overlap(segs[i], startDist, endDist)])
    IN  IF w = 0 THEN 0
        ELSE RDiv(SeqSum([i \in 1..Len(segs) |->
                            segs[i].grade * Overlap(segs[i], startDist, endDist)]), w)

\* distance-weighted mean elevation over [startDist, endDist]
getAverageElevation(gpx, startDist, endDist) ==
    LET segs == segments(gpx)
        w    == SeqSum([i \in 1..Len(segs) |-> Overlap(segs[i], startDist, endDist)])
        \* the mean elevation of the overlapping part, doubled
        Ends2(seg) ==
            ElevationOn(seg, Max(seg.startDistance, startDist))
              + ElevationOn(seg, Min(seg.endDistance, endDist))
    IN  IF w = 0 THEN gpx[1].elevation
        ELSE RDiv(SeqSum([i \in 1..Len(segs) |->
                            IF Overlap(segs[i], startDist, endDist) = 0 THEN 0
                            ELSE Ends2(segs[i]) * Overlap(segs[i], startDist, endDist)]),
                  2 * w)

\* the elevation at distance d, interpolated between the enclosing points
RECURSIVE getElevationAtDistance(_, _, _)
getElevationAtDistance(gpx, d, i) ==
    IF i >= Len(gpx) - 1 \/ d <= gpx[i + 1].distance
    THEN ElevationOn(Segment(gpx, i), Min(d, gpx[i + 1].distance))
    ELSE getElevationAtDistance(gpx, d, i + 1)

\* boundaries at 0, lapLength, 2 lapLength, ... and a last one at the total
\* distance when that is not a multiple of lapLength
RECURSIVE LapBoundariesFrom(_, _, _, _)
LapBoundariesFrom(gpx, lapLength, d, n) ==
    IF d >= totalDistance(gpx)
    THEN << [lapNumber |-> n, distance |-> totalDistance(gpx),
             elevation |-> getElevationAtDistance(gpx, totalDistance(gpx), 1)] >>
    ELSE << [lapNumber |-> n, distance |-> d,
             elevation |-> getElevationAtDistance(gpx, d, 1)] >>
           \o LapBoundariesFrom(gpx, lapLength, d + lapLength, n + 1)

generateLapBoundaries(gpx, lapLength) ==
    IF totalDistance(gpx) <= 0
    THEN << [lapNumber |-> 0, distance |-> 0, elevation |-> gpx[1].elevation] >>
    ELSE LapBoundariesFrom(gpx, lapLength, 0, 0)

-----------------------------------------------------------------------------
(* Goal pace solver: the per-segment adjustment *)

SpeedScale == 10 ^ 3

paceToSpeed(paceSecPerKm) == RDiv(1000 * SpeedScale, paceSecPerKm)

\* Calculate limitation factor based on steepness: 0 at the threshold of
\* -8%, 1 at -25%, in 1/10000
steepnessFactor(grade) ==
    LET steepnessThreshold == -800
        maxSteepness       == -2500
    IN  Max(0, SDiv((grade - steepnessThreshold) * GradeScale,
                    maxSteepness - steepnessThreshold))

\* 1.0 - steepnessFactor * 0.6, in 1/10000
limitationFactor(grade) == GradeScale - RDiv(steepnessFactor(grade) * 6, 10)

\* the cap without its last step, the floor at the base pace
applyDownhillSpeedCap_NoFloor(theoreticalSpeed, basePaceMs, grade) ==
    IF grade >= -800 THEN theoreticalSpeed
    ELSE Min(SMulDiv(theoreticalSpeed, limitationFactor(grade), GradeScale),
             RDiv(basePaceMs * 15, 10))

\* Progressive limitation for downhills steeper than -8%
applyDownhillSpeedCap(theoreticalSpeed, basePaceMs, grade) ==
    LET steepnessThreshold == -800
    IN  IF grade >= steepnessThreshold THEN theoreticalSpeed
        ELSE LET maxSafeSpeed == RDiv(basePaceMs * 15, 10)
                 cappedSpeed  == Min(SMulDiv(theoreticalSpeed, limitationFactor(grade),
                                             GradeScale),
                                     maxSafeSpeed)
             IN  Max(cappedSpeed, basePaceMs)

\* the quotient kept whatever it is
FiniteOrPenalty_NoFallback(actualSpeed, basePaceMs, grade) == actualSpeed

\* Fallback to simple grade penalty
GradePenaltySpeed(basePaceMs, grade) ==
    MulDiv(basePaceMs, GradeScale - Max(-5000, Min(8000, grade * 10)), GradeScale)

\* the speed that gives the power targetWkg at the cost totalCr
\* actualSpeed unless it is not finite (NaN here) or not positive
FiniteOrPenalty(actualSpeed, basePaceMs, grade) ==
    IF actualSpeed <= 0 THEN GradePenaltySpeed(basePaceMs, grade) ELSE actualSpeed

\* the speed that gives the power targetWkg at the cost totalCr; a cost of
\* zero or less gives an infinite or a negative quotient
SpeedAtPower(basePaceMs, grade, targetWkg, totalCr) ==
    FiniteOrPenalty(IF totalCr <= 0 THEN NaN
                    ELSE MulDiv(targetWkg, SpeedScale, totalCr),
                    basePaceMs, grade)

\* flatCr and the looked-up power powLookup to the speed on this grade
SpeedAtCost(basePaceMs, grade, flatCr, powLookup) ==
    SpeedAtPower(basePaceMs, grade,
                 IF powLookup = NaN THEN MulDiv(flatCr, basePaceMs, SpeedScale)
                 ELSE powLookup,
                 flatCr + calcDeltaEC(grade))

\* the default cost whatever was looked up
FlatCost_AlwaysDefault(flatLookup) == 4000

\* the looked-up cost, or the default 4.0 J/kg/m outside the table
FlatCost(flatLookup) == IF flatLookup = NaN THEN 4000 ELSE flatLookup

\* the speed on this grade at the effort of basePaceMs, before the downhill
\* cap and the altitude step
GradeSpeed(basePaceMs, grade) ==
    SpeedAtCost(basePaceMs, grade,
                FlatCost(lookupSpeed(basePaceMs, "energy_j_kg_m")),
                lookupSpeed(basePaceMs, "energy_j_kg_s"))

\* the DownhillAdjustment records pushed for one sub-segment (none or one)
Tracked(originalSpeed, actualSpeed, basePaceMs, grade, segmentStart, segmentEnd) ==
    IF grade < -800 /\ actualSpeed < originalSpeed
    THEN << [ startDistance    |-> segmentStart,
              endDistance      |-> segmentEnd,
              grade            |-> grade,
              theoreticalSpeed |-> originalSpeed,
              actualSpeed      |-> actualSpeed,
              speedReduction   |-> MulDiv(originalSpeed - actualSpeed, 100 * 100,
                                          originalSpeed),
              \* not a field of the source's record: the base pace of
              \* the call that pushed it
              basePaceMs       |-> basePaceMs ] >>
    ELSE << >>

\* the steps of applyGAPAdjustment after the downhill cap
AfterCap(originalSpeed, cappedSpeed, basePaceMs, grade, segmentElevation, segmentStart, segmentEnd, baselineElevation) ==
    [ speed  |-> MulDiv(cappedSpeed, AltScale,
                        calculateAltitudePenalty(segmentElevation, baselineElevation)),
      pushed |-> Tracked(originalSpeed, cappedSpeed, basePaceMs, grade,
                         segmentStart, segmentEnd) ]

\* the steps of applyGAPAdjustment from the downhill cap on
FromCap(originalSpeed, basePaceMs, grade, segmentElevation, segmentStart, segmentEnd, baselineElevation) ==
    AfterCap(originalSpeed,
             IF grade < -800 THEN applyDownhillSpeedCap(originalSpeed, basePaceMs, grade)
             ELSE originalSpeed,
             basePaceMs, grade, segmentElevation, segmentStart, segmentEnd,
             baselineElevation)

\* the adjusted speed, and the DownhillAdjustment records pushed
applyGAPAdjustment(basePaceMs, grade, segmentElevation, segmentStart, segmentEnd, baselineElevation) ==
    FromCap(GradeSpeed(basePaceMs, grade), basePaceMs, grade, segmentElevation,
            segmentStart, segmentEnd, baselineElevation)

\* the sum and the concatenation of xs[lo..hi], by halves
RECURSIVE SumRange(_, _, _)
SumRange(xs, lo, hi) ==
    IF lo > hi THEN 0
    ELSE IF lo = hi THEN xs[lo]
    ELSE SumRange(xs, lo, (lo + hi) \div 2) + SumRange(xs, (lo + hi) \div 2 + 1, hi)

RECURSIVE ConcatRange(_, _, _)
ConcatRange(xs, lo, hi) ==
    IF lo > hi THEN << >>
    ELSE IF lo = hi THEN xs[lo]
    ELSE ConcatRange(xs, lo, (lo + hi) \div 2)
           \o ConcatRange(xs, (lo + hi) \div 2 + 1, hi)

\* the sub-segments the while loop of calculateTotalTime / calculateLapTime
\* visits from startDistance to endDistance: currentDistance advances by
\* segmentLength until it reaches endDistance, and the loop breaks at once
\* when the sub-segment is empty (segmentLength <= 0)
SubSegments(startDistance, endDistance, segmentLength) ==
    IF ~(startDistance < endDistance) \/ segmentLength <= 0 THEN << >>
    ELSE [ k \in 1..((endDistance - startDistance + segmentLength - 1) \div segmentLength) |->
             [ currentDistance |-> startDistance + (k - 1) * segmentLength,
               segmentEnd      |-> Min(startDistance + k * segmentLength, endDistance) ] ]
           \o << >>

\* the walk of calculateTotalTime / calculateLapTime from startDistance to
\* endDistance: the time summed and the DownhillAdjustment records pushed
Walk(gpx, basePaceMs, segmentLength, startDistance, endDistance, baselineElevation) ==
    LET subs == SubSegments(startDistance, endDistance, segmentLength)
        adj  == [ k \in 1..Len(subs) |->
                    applyGAPAdjustment(
                        basePaceMs,
                        getAverageGrade(gpx, subs[k].currentDistance, subs[k].segmentEnd),
                        getAverageElevation(gpx, subs[k].currentDistance, subs[k].segmentEnd),
                        subs[k].currentDistance, subs[k].segmentEnd, baselineElevation) ]
                \o << >>
        segmentTime == [ k \in 1..Len(subs) |->
                           MulDiv(subs[k].segmentEnd - subs[k].currentDistance,
                                  1000 * SpeedScale, adj[k].speed) ] \o << >>
    IN  [ time   |-> SumRange(segmentTime, 1, Len(subs)),
          pushed |-> ConcatRange([k \in 1..Len(subs) |-> adj[k].pushed] \o << >>,
                                 1, Len(subs)) ]

calculateTotalTime(gpx, basePaceMs, segmentLength, baselineElevation) ==
    Walk(gpx, basePaceMs, segmentLength, 0, totalDistance(gpx), baselineElevation)

\* pace in ms per km for a speed in mm/s: 1000 / (speedMs * 60) min/km,
\* Infinity (2^30 here) for the speed 0
speedToPace(speedMs) ==
    IF speedMs = 0 THEN 2 ^ 30 ELSE MulDiv(1000 * SpeedScale, 1000, speedMs)

-----------------------------------------------------------------------------
(* Goal pace solver: findBasePaceForGoalTime *)

\* the initial bestError, larger in magnitude than every error
Infinity == 2 ^ 30

\* a tolerance of eight seconds
DefaultTolerance_Loose == 8 * 1000

\* tolerance: number = 1.0; // seconds tolerance.  In ms
DefaultTolerance == 1000

\* Sanity bounds: 12:00 min/km and 2:30 min/km, as paces in s/km
MinSpeedPace == 720

MaxSpeedPace == 150

\* Initial guess: simple average pace.  goalTimeSeconds is in ms, so the
\* speed in mm/s is distance * 10^6 / goal
InitialGuess(gpx, goalTimeSeconds) ==
    MulDiv(totalDistance(gpx), 1000 * SpeedScale, goalTimeSeconds)

\* the locals of findBasePaceForGoalTime as the loop is entered
EnterLoop(gpx, goalTimeSeconds) ==
    [ basePaceMs          |-> InitialGuess(gpx, goalTimeSeconds),
      iteration           |-> 0,
      bestError           |-> Infinity,
      bestPace            |-> InitialGuess(gpx, goalTimeSeconds),
      convergenceHistory  |-> << >>,
      downhillAdjustments |-> << >>,
      broke               |-> FALSE ]

\* the update with a step a thousand times smaller
AdjustPace_SmallStep(basePaceMs, error, goalTimeSeconds) ==
    LET change   == MulDiv(basePaceMs, Abs(error), 2 * goalTimeSeconds) \div 1000
        adjusted == IF error > 0 THEN basePaceMs + change ELSE basePaceMs - change
    IN  Max(paceToSpeed(MinSpeedPace), Min(paceToSpeed(MaxSpeedPace), adjusted))

\* the update with a step six times larger
AdjustPace_Undamped(basePaceMs, error, goalTimeSeconds) ==
    LET change   == MulDiv(basePaceMs, 3 * Abs(error), goalTimeSeconds)
        adjusted == IF error > 0 THEN basePaceMs + change ELSE basePaceMs - change
    IN  Max(paceToSpeed(MinSpeedPace), Min(paceToSpeed(MaxSpeedPace), adjusted))

\* Adjust base pace based on error, then apply the sanity bounds
AdjustPace(basePaceMs, error, goalTimeSeconds) ==
    LET change   == MulDiv(basePaceMs, Abs(error), 2 * goalTimeSeconds)
        adjusted == IF error > 0 THEN basePaceMs + change ELSE basePaceMs - change
        minSpeed == paceToSpeed(MinSpeedPace)
        maxSpeed == paceToSpeed(MaxSpeedPace)
    IN  Max(minSpeed, Min(maxSpeed, adjusted))

\* the ConvergenceStep with iterations counted from 1
ConvergenceStep_OneBased(f, goalTimeSeconds, predictedTime, error) ==
    [ iteration     |-> f.iteration + 1,
      basePace      |-> speedToPace(f.basePaceMs),
      predictedTime |-> predictedTime,
      error         |-> error,
      errorPercent  |-> (IF error < 0 THEN -1 ELSE 1)
                          * MulDiv(Abs(error), 100 * 1000, goalTimeSeconds),
      basePaceMs    |-> f.basePaceMs ]

\* the ConvergenceStep pushed for the trial speed f.basePaceMs
ConvergenceStep(f, goalTimeSeconds, predictedTime, error) ==
    [ iteration     |-> f.iteration,
      basePace      |-> speedToPace(f.basePaceMs),
      predictedTime |-> predictedTime,
      error         |-> error,
      errorPercent  |-> (IF error < 0 THEN -1 ELSE 1)
                          * MulDiv(Abs(error), 100 * 1000, goalTimeSeconds),
      \* not a field of the source's record: the trial speed
      basePaceMs    |-> f.basePaceMs ]

\* the loop's body after the error is computed
AfterError(f, goalTimeSeconds, tolerance, total, error) ==
    [ basePaceMs          |-> IF Abs(error) <= tolerance THEN f.basePaceMs
                              ELSE AdjustPace(f.basePaceMs, error, goalTimeSeconds),
      iteration           |-> IF Abs(error) <= tolerance THEN f.iteration
                              ELSE f.iteration + 1,
      bestError           |-> IF Abs(error) < Abs(f.bestError) THEN error
                              ELSE f.bestError,
      bestPace            |-> IF Abs(error) < Abs(f.bestError) THEN f.basePaceMs
                              ELSE f.bestPace,
      convergenceHistory  |-> Append(f.convergenceHistory,
                                     ConvergenceStep(f, goalTimeSeconds, total.time, error)),
      downhillAdjustments |-> f.downhillAdjustments \o total.pushed,
      \* Check convergence: the loop breaks
      broke               |-> Abs(error) <= tolerance ]

\* the loop's body after the total time is predicted
AfterTotal(f, goalTimeSeconds, tolerance, total) ==
    AfterError(f, goalTimeSeconds, tolerance, total, total.time - goalTimeSeconds)

\* one pass of the while loop's body on the locals f
LoopBody(gpx, goalTimeSeconds, segmentLength, baselineElevation, tolerance, f) ==
    AfterTotal(f, goalTimeSeconds, tolerance,
               calculateTotalTime(gpx, f.basePaceMs, segmentLength, baselineElevation))

\* Use best result if we didn't converge
FinalPace(f) ==
    IF Abs(f.bestError)
         < Abs(f.convergenceHistory[Len(f.convergenceHistory)].error)
    THEN f.bestPace
    ELSE f.basePaceMs

\* the result with converged taken from the loop's exit
SolverResult_LoopVerdict(f, goalTimeSeconds, tolerance, finalPace, total) ==
    [ basePaceMs          |-> finalPace,
      basePaceMinPerKm    |-> speedToPace(finalPace),
      finalError          |-> total.time - goalTimeSeconds,
      converged           |-> f.iteration < Len(f.convergenceHistory),
      iterations          |-> f.iteration,
      convergenceHistory  |-> f.convergenceHistory,
      predictedTime       |-> total.time,
      downhillAdjustments |-> f.downhillAdjustments \o total.pushed ]

\* the SolverResult for the final base pace and its final evaluation
SolverResult(f, goalTimeSeconds, tolerance, finalPace, total) ==
    [ basePaceMs          |-> finalPace,
      basePaceMinPerKm    |-> speedToPace(finalPace),
      finalError          |-> total.time - goalTimeSeconds,
      converged           |-> Abs(total.time - goalTimeSeconds) <= tolerance,
      iterations          |-> f.iteration,
      convergenceHistory  |-> f.convergenceHistory,
      predictedTime       |-> total.time,
      downhillAdjustments |-> f.downhillAdjustments \o total.pushed ]

\* Final calculation with best pace
FinishAt(gpx, goalTimeSeconds, segmentLength, baselineElevation, tolerance, f, finalPace) ==
    SolverResult(f, goalTimeSeconds, tolerance, finalPace,
                 calculateTotalTime(gpx, finalPace, segmentLength, baselineElevation))

\* the code after the loop: the SolverResult, whose downhillAdjustments is
\* the solver's own array
Finish(gpx, goalTimeSeconds, segmentLength, baselineElevation, tolerance, f) ==
    FinishAt(gpx, goalTimeSeconds, segmentLength, baselineElevation, tolerance, f,
             FinalPace(f))

-----------------------------------------------------------------------------
(* The solver with the altitude step of applyGAPAdjustment removed: the     *)
(* adjusted speed is the speed after the downhill cap                       *)

AfterCap_NoAltitude(originalSpeed, cappedSpeed, basePaceMs, grade, segmentStart, segmentEnd) ==
    [ speed  |-> cappedSpeed,
      pushed |-> Tracked(originalSpeed, cappedSpeed, basePaceMs, grade,
                         segmentStart, segmentEnd) ]

FromCap_NoAltitude(originalSpeed, basePaceMs, grade, segmentStart, segmentEnd) ==
    AfterCap_NoAltitude(originalSpeed,
                        IF grade < -800
                        THEN applyDownhillSpeedCap(originalSpeed, basePaceMs, grade)
                        ELSE originalSpeed,
                        basePaceMs, grade, segmentStart, segmentEnd)

applyGAPAdjustment_NoAltitude(basePaceMs, grade, segmentStart, segmentEnd) ==
    FromCap_NoAltitude(GradeSpeed(basePaceMs, grade), basePaceMs, grade,
                       segmentStart, segmentEnd)

calculateTotalTime_NoAltitude(gpx, basePaceMs, segmentLength) ==
    LET subs == SubSegments(0, totalDistance(gpx), segmentLength)
        adj  == [ k \in 1..Len(subs) |->
                    applyGAPAdjustment_NoAltitude(
                        basePaceMs,
                        getAverageGrade(gpx, subs[k].currentDistance, subs[k].segmentEnd),
                        subs[k].currentDistance, subs[k].segmentEnd) ]
                \o << >>
        segmentTime == [ k \in 1..Len(subs) |->
                           MulDiv(subs[k].segmentEnd - subs[k].currentDistance,
                                  1000 * SpeedScale, adj[k].speed) ] \o << >>
    IN  [ time   |-> SumRange(segmentTime, 1, Len(subs)),
          pushed |-> ConcatRange([k \in 1..Len(subs) |-> adj[k].pushed] \o << >>,
                                 1, Len(subs)) ]

\* findBasePaceForGoalTime from the locals f on
RECURSIVE Solve_NoAltitude(_, _, _, _, _, _)
Solve_NoAltitude(gpx, goalTimeSeconds, segmentLength, tolerance, maxIterations, f) ==
    IF f.broke \/ ~(f.iteration < maxIterations)
    THEN SolverResult(f, goalTimeSeconds, tolerance, FinalPace(f),
                      calculateTotalTime_NoAltitude(gpx, FinalPace(f), segmentLength))
    ELSE Solve_NoAltitude(gpx, goalTimeSeconds, segmentLength, tolerance, maxIterations,
                          AfterTotal(f, goalTimeSeconds, tolerance,
                                     calculateTotalTime_NoAltitude(gpx, f.basePaceMs,
                                                                   segmentLength)))

findBasePaceForGoalTime_NoAltitude(gpx, goalTimeSeconds, segmentLength, tolerance, maxIterations) ==
    Solve_NoAltitude(gpx, goalTimeSeconds, segmentLength, tolerance, maxIterations,
                     EnterLoop(gpx, goalTimeSeconds))

-----------------------------------------------------------------------------
(* Lap calculator *)

\* "1mile" is 1609.344 m in the source; distances are whole metres here
LAP_DISTANCES ==
    [ k \in {"400m", "1000m", "1km", "1mile", "5000m", "5km"} |->
        CASE k = "400m"  -> 400
          [] k = "1000m" -> 1000
          [] k = "1km"   -> 1000
          [] k = "1mile" -> 1609
          [] k = "5000m" -> 5000
          [] k = "5km"   -> 5000 ]

\* some of the members every JavaScript object inherits from
\* Object.prototype: LAP_DISTANCES[key] is a function for them
ObjectPrototypeKeys == { "constructor", "toString", "valueOf", "hasOwnProperty" }

\* if (!lapDistance): LAP_DISTANCES[lapInterval] is undefined.  The table's
\* own values are numbers other than 0 and the inherited members are
\* functions: both are truthy
Unsupported(lapInterval) ==
    /\ lapInterval \notin DOMAIN LAP_DISTANCES
    /\ lapInterval \notin ObjectPrototypeKeys

\* Check if a lap segment contains any downhill speed cap adjustments
checkForDownhillSpeedCap(adjustments, startDistance, endDistance) ==
    \E k \in 1..Len(adjustments) :
        /\ adjustments[k].startDistance < endDistance
        /\ adjustments[k].endDistance > startDistance

\* the part of segment seg's elevation change that falls inside
\* [startDistance, endDistance], as a gain or as a loss
OverlapChange(seg, startDistance, endDistance, gain) ==
    IF seg.endDistance > startDistance /\ seg.startDistance < endDistance
    THEN LET overlapStart == Max(seg.startDistance, startDistance)
             overlapEnd   == Min(seg.endDistance, endDistance)
         IN  IF gain = (seg.elevationChange > 0)
             THEN RDiv(Abs(seg.elevationChange) * (overlapEnd - overlapStart),
                       seg.horizontalDistance)
             ELSE 0
    ELSE 0

\* the gain and loss of whole segments, whatever part of them is inside
calculateElevationGainLoss_WholeSegments(gpx, startDistance, endDistance) ==
    LET segs == segments(gpx)
    IN  [ gain |-> SeqSum([i \in 1..Len(segs) |->
                             IF segs[i].endDistance > startDistance
                                  /\ segs[i].startDistance < endDistance
                                  /\ segs[i].elevationChange > 0
                             THEN segs[i].elevationChange ELSE 0]),
          loss |-> SeqSum([i \in 1..Len(segs) |->
                             IF segs[i].endDistance > startDistance
                                  /\ segs[i].startDistance < endDistance
                                  /\ segs[i].elevationChange <= 0
                             THEN Abs(segs[i].elevationChange) ELSE 0]) ]

\* Calculate elevation gain and loss within a distance range, in cm
calculateElevationGainLoss(gpx, startDistance, endDistance) ==
    LET segs == segments(gpx)
    IN  [ gain |-> SeqSum([i \in 1..Len(segs) |->
                             OverlapChange(segs[i], startDistance, endDistance, TRUE)]),
          loss |-> SeqSum([i \in 1..Len(segs) |->
                             OverlapChange(segs[i], startDistance, endDistance,
                                           FALSE)]) ]

\* the split numbered from 0
LapSplit_ZeroBased(gpx, lapStart, lapEnd, i, cumulativeTime, lap, after) ==
    [ lapNumber           |-> i - 1,
      startDistance       |-> lapStart.distance,
      endDistance         |-> lapEnd.distance,
      lapDistance         |-> lapEnd.distance - lapStart.distance,
      lapTime             |-> lap.time,
      cumulativeTime      |-> cumulativeTime + lap.time,
      startElevation      |-> lapStart.elevation,
      endElevation        |-> lapEnd.elevation,
      elevationChange     |-> lapEnd.elevation - lapStart.elevation,
      elevationGain       |-> calculateElevationGainLoss(gpx, lapStart.distance,
                                                         lapEnd.distance).gain,
      elevationLoss       |-> calculateElevationGainLoss(gpx, lapStart.distance,
                                                         lapEnd.distance).loss,
      averageGrade        |-> getAverageGrade(gpx, lapStart.distance, lapEnd.distance),
      averageElevation    |-> getAverageElevation(gpx, lapStart.distance,
                                                  lapEnd.distance),
      hasDownhillSpeedCap |-> checkForDownhillSpeedCap(after, lapStart.distance,
                                                       lapEnd.distance) ]

\* the LapSplit of lap i, whose walk lap took lap.time and left the solver's
\* downhillAdjustments as after
LapSplit(gpx, lapStart, lapEnd, i, cumulativeTime, lap, after) ==
    [ lapNumber           |-> i,
      startDistance       |-> lapStart.distance,
      endDistance         |-> lapEnd.distance,
      lapDistance         |-> lapEnd.distance - lapStart.distance,
      lapTime             |-> lap.time,
      cumulativeTime      |-> cumulativeTime + lap.time,
      startElevation      |-> lapStart.elevation,
      endElevation        |-> lapEnd.elevation,
      elevationChange     |-> lapEnd.elevation - lapStart.elevation,
      elevationGain       |-> calculateElevationGainLoss(gpx, lapStart.distance,
                                                         lapEnd.distance).gain,
      elevationLoss       |-> calculateElevationGainLoss(gpx, lapStart.distance,
                                                         lapEnd.distance).loss,
      averageGrade        |-> getAverageGrade(gpx, lapStart.distance, lapEnd.distance),
      averageElevation    |-> getAverageElevation(gpx, lapStart.distance,
                                                  lapEnd.distance),
      hasDownhillSpeedCap |-> checkForDownhillSpeedCap(after, lapStart.distance,
                                                       lapEnd.distance) ]

\* the splits from lap i on, lap i's walk being lap
RECURSIVE SplitsAfterWalk(_, _, _, _, _, _, _, _, _)

\* the loop of calculateDetailedSplits from lap i on: the splits pushed and
\* the solver's downhillAdjustments after them.  lapBoundaries[i] and
\* lapBoundaries[i + 1] are lapBoundaries[i - 1] and [i] of the 0-based source
DetailedSplitsFrom(gpx, lapBoundaries, basePaceMs, segmentLength, baselineElevation, i, cumulativeTime, adjustments) ==
    IF ~(i < Len(lapBoundaries)) THEN [splits |-> << >>, adjustments |-> adjustments]
    ELSE SplitsAfterWalk(gpx, lapBoundaries, basePaceMs, segmentLength,
                         baselineElevation, i, cumulativeTime, adjustments,
                         \* calculateLapTime
                         Walk(gpx, basePaceMs, segmentLength, lapBoundaries[i].distance,
                              lapBoundaries[i + 1].distance, baselineElevation))

\* a split in front of the splits after it
PushSplit(split, rest) ==
    [splits |-> << split >> \o rest.splits, adjustments |-> rest.adjustments]

SplitsAfterWalk(gpx, lapBoundaries, basePaceMs, segmentLength, baselineElevation, i, cumulativeTime, adjustments, lap) ==
    PushSplit(LapSplit(gpx, lapBoundaries[i], lapBoundaries[i + 1], i, cumulativeTime,
                       lap, adjustments \o lap.pushed),
              DetailedSplitsFrom(gpx, lapBoundaries, basePaceMs, segmentLength,
                                 baselineElevation, i + 1, cumulativeTime + lap.time,
                                 adjustments \o lap.pushed))

calculateDetailedSplits(gpx, lapBoundaries, basePaceMs, segmentLength, baselineElevation, adjustments) ==
    DetailedSplitsFrom(gpx, lapBoundaries, basePaceMs, segmentLength,
                       baselineElevation, 1, 0, adjustments)

\* the analysis without its check
analyzeRoute_Unchecked(splits) == "done"

\* how analyzeRoute ends: if (lapSplits.length === 0) throw new Error("No
\* lap splits to analyze"), else it returns the analysis
analyzeRoute(splits) == IF Len(splits) = 0 THEN "nolaps" ELSE "done"

-----------------------------------------------------------------------------
(* Inputs *)

\* the route through the points startElevation, then one more per entry of
\* steps, each << horizontal distance, grade >>
RECURSIVE RouteFrom(_, _, _)
RouteFrom(d, e, steps) ==
    IF steps = << >> THEN << Point(d, e) >>
    ELSE << Point(d, e) >>
           \o RouteFrom(d + Head(steps)[1],
                        e + RDiv(Head(steps)[2] * Head(steps)[1], 100),
                        Tail(steps))

RouteCatalogue ==
    << \* flat, at the default baseline elevation
       RouteFrom(0, 0, << <<1000, 0>>, <<1000, 0>> >>),
       \* rolling, with a steep descent that ends in a climb
       RouteFrom(0, 5000, << <<370, 500>>, <<430, 300>>, <<435, -400>>,
                             <<440, -1200>>, <<325, 600>> >>),
       \* a steady 10% climb
       RouteFrom(0, 0, << <<2000, 1000>> >>),
       \* flat, 600 m above the default baseline
       RouteFrom(0, 60000, << <<2000, 0>> >>),
       \* a descent steeper than the cap's full limitation
       RouteFrom(0, 60000, << <<520, -2600>>, <<730, -900>>, <<750, 200>> >>),
       \* a short flat route
       RouteFrom(0, 0, << <<400, 0>> >>),
       \* gentle rollers
       RouteFrom(0, 1000, << <<610, 200>>, <<690, -300>>, <<700, 100>> >>) >>

NumRoutes == 5

Routes == { RouteCatalogue[i] : i \in 1..NumRoutes }

\* goal paces in s/km: the goal time in ms is pace * distance in m
GoalPaces == { 2, 150, 165, 240, 360, 720 }

GoalTimes(route) == { p * totalDistance(route) : p \in GoalPaces }

\* the goal paces of the lap analyses
LapGoalPaces == { 165, 240 }

LapGoalTimes(route) == { p * totalDistance(route) : p \in LapGoalPaces }

SegmentLengths == { 50 }

LapIntervals == DOMAIN LAP_DISTANCES \cup { "2km", "", "constructor" }

\* no lap analysis: findBasePaceForGoalTime called directly
NoLaps == "none"

IterationCaps == { 3 }

-----------------------------------------------------------------------------
(* State *)

VARIABLES
    \* the solver's fields
    maxIterations, tolerance, baselineElevation, downhillAdjustments,
    \* the arguments of the call in progress
    gpxParser, goalTimeSeconds, segmentLength, lapInterval,
    \* the locals of findBasePaceForGoalTime
    basePaceMs, iteration, bestError, bestPace, convergenceHistory,
    \* where the call is: "idle", "loop", "final", "splits", "done", "failed",
    \* "nolaps", "outside"
    pc,
    \* what the call returned
    solverResult, lapSplits,
    \* the locals of the walk in progress (calculateTotalTime, calculateLapTime),
    \* where the walk is followed sub-segment by sub-segment
    currentDistance, walkEnd, totalTime,
    \* the number of calculateTotalTime calls of the findBasePaceForGoalTime
    \* call in progress
    evaluations,
    \* the caller's record of the call before this one, if it kept one
    previous,
    \* the last direct call of applyDownhillSpeedCap or applyGAPAdjustment:
    \* its arguments and what it returned
    call

vars == << maxIterations, tolerance, baselineElevation, downhillAdjustments,
           gpxParser, goalTimeSeconds, segmentLength, lapInterval,
           basePaceMs, iteration, bestError, bestPace, convergenceHistory,
           pc, solverResult, lapSplits, currentDistance, walkEnd, totalTime,
           evaluations, previous, call >>

walkVars == << currentDistance, walkEnd, totalTime >>

None == [none |-> TRUE]

Locals ==
    [ basePaceMs          |-> basePaceMs,
      iteration           |-> iteration,
      bestError           |-> bestError,
      bestPace            |-> bestPace,
      convergenceHistory  |-> convergenceHistory,
      downhillAdjustments |-> downhillAdjustments,
      broke               |-> FALSE ]

SetLocals(f) ==
    /\ basePaceMs' = f.basePaceMs
    /\ iteration' = f.iteration
    /\ bestError' = f.bestError
    /\ bestPace' = f.bestPace
    /\ convergenceHistory' = f.convergenceHistory
    /\ downhillAdjustments' = f.downhillAdjustments

\* new GoalPaceSolver(baselineElevation)
Init ==
    /\ maxIterations = 20
    /\ tolerance = DefaultTolerance
    /\ baselineElevation = 0
    /\ downhillAdjustments = << >>
    /\ gpxParser = << >>
    /\ goalTimeSeconds = 0
    /\ segmentLength = 0
    /\ lapInterval = NoLaps
    /\ basePaceMs = 0
    /\ iteration = 0
    /\ bestError = Infinity
    /\ bestPace = 0
    /\ convergenceHistory = << >>
    /\ pc = "idle"
    /\ solverResult = None
    /\ lapSplits = << >>
    /\ currentDistance = 0
    /\ walkEnd = 0
    /\ totalTime = 0
    /\ evaluations = 0
    /\ previous = None
    /\ call = None

\* solver.maxIterations = n, before a call
SetMaxIterations(n) ==
    /\ pc = "idle"
    /\ maxIterations # n
    /\ maxIterations' = n
    /\ UNCHANGED << tolerance, baselineElevation, downhillAdjustments, gpxParser,
                    goalTimeSeconds, segmentLength, lapInterval, basePaceMs,
                    iteration, bestError, bestPace, convergenceHistory, pc,
                    solverResult, lapSplits, walkVars, evaluations, previous, call >>

\* solver.setBaselineElevation(elevation), before a call
SetBaselineElevation(elevation) ==
    /\ pc = "idle"
    /\ baselineElevation # elevation
    /\ baselineElevation' = elevation
    /\ UNCHANGED << maxIterations, tolerance, downhillAdjustments, gpxParser,
                    goalTimeSeconds, segmentLength, lapInterval, basePaceMs,
                    iteration, bestError, bestPace, convergenceHistory, pc,
                    solverResult, lapSplits, walkVars, evaluations, previous, call >>

\* findBasePaceForGoalTime up to the loop
EnterSolver(route, goal, segLen) ==
    /\ gpxParser' = route
    /\ goalTimeSeconds' = goal
    /\ segmentLength' = segLen
    /\ SetLocals(EnterLoop(route, goal))
    /\ pc' = "loop"
    /\ evaluations' = 0
    /\ UNCHANGED << maxIterations, tolerance, baselineElevation, solverResult,
                    lapSplits, walkVars >>

\* solver.findBasePaceForGoalTime(route, goal, segLen)
CallFindBasePace(route, goal, segLen) ==
    /\ pc = "idle"
    /\ lapInterval' = NoLaps
    /\ EnterSolver(route, goal, segLen)
    /\ UNCHANGED << previous, call >>

\* lapCalculator.calculateLapSplits(route, goal, interval, segLen)
CallCalculateLapSplits(route, goal, interval, segLen) ==
    /\ pc = "idle"
    /\ lapInterval' = interval
    /\ UNCHANGED << previous, call >>
    /\ IF Unsupported(interval)
       THEN /\ pc' = "failed"
            /\ UNCHANGED << maxIterations, tolerance, baselineElevation,
                            downhillAdjustments, gpxParser, goalTimeSeconds,
                            segmentLength, basePaceMs, iteration, bestError,
                            bestPace, convergenceHistory, solverResult, lapSplits,
                            walkVars, evaluations >>
       ELSE EnterSolver(route, goal, segLen)

\* the locals after one pass, and where the loop goes
LoopTo(f) ==
    /\ SetLocals(f)
    /\ pc' = IF f.broke \/ ~(f.iteration < maxIterations) THEN "final" ELSE "loop"

\* one pass of the while loop
Iterate ==
    /\ pc = "loop"
    /\ iteration < maxIterations
    /\ LoopTo(LoopBody(gpxParser, goalTimeSeconds, segmentLength,
                       baselineElevation, tolerance, Locals))
    /\ evaluations' = evaluations + 1
    /\ UNCHANGED << maxIterations, tolerance, baselineElevation, gpxParser,
                    goalTimeSeconds, segmentLength, lapInterval, solverResult,
                    lapSplits, walkVars, previous, call >>

ReturnResult(r) ==
    /\ solverResult' = r
    /\ basePaceMs' = r.basePaceMs
    /\ downhillAdjustments' = r.downhillAdjustments

\* the code after the loop: the final evaluation and the SolverResult
Return ==
    /\ pc = "final"
    /\ ReturnResult(Finish(gpxParser, goalTimeSeconds, segmentLength,
                            baselineElevation, tolerance, Locals))
    /\ pc' = IF lapInterval = NoLaps THEN "done" ELSE "splits"
    /\ evaluations' = evaluations + 1
    /\ UNCHANGED << maxIterations, tolerance, baselineElevation, gpxParser,
                    goalTimeSeconds, segmentLength, lapInterval, iteration,
                    bestError, bestPace, convergenceHistory, lapSplits, walkVars,
                    previous, call >>

SplitsDone(d) ==
    /\ pc' = analyzeRoute(d.splits)
    /\ lapSplits' = d.splits
    /\ downhillAdjustments' = d.adjustments
    /\ solverResult' = [solverResult EXCEPT !.downhillAdjustments = d.adjustments]

\* generateLapBoundaries and calculateDetailedSplits; the result's
\* downhillAdjustments is the solver's array, which the lap walks push to
DetailedSplits ==
    /\ pc = "splits"
    /\ lapInterval \in DOMAIN LAP_DISTANCES
    /\ SplitsDone(calculateDetailedSplits(
                      gpxParser,
                      generateLapBoundaries(gpxParser, LAP_DISTANCES[lapInterval]),
                      solverResult.basePaceMs, segmentLength, baselineElevation,
                      downhillAdjustments))
    /\ UNCHANGED << maxIterations, tolerance, baselineElevation, gpxParser,
                    goalTimeSeconds, segmentLength, lapInterval, basePaceMs,
                    iteration, bestError, bestPace, convergenceHistory, walkVars,
                    evaluations, previous, call >>

\* gpxParser.generateLapBoundaries(lapDistance) is called with a lap
\* distance that is a function, not a number: what the route model does
\* with it is not followed
BoundariesOfFunction ==
    /\ pc = "splits"
    /\ lapInterval \notin DOMAIN LAP_DISTANCES
    /\ pc' = "outside"
    /\ UNCHANGED << maxIterations, tolerance, baselineElevation, downhillAdjustments,
                    gpxParser, goalTimeSeconds, segmentLength, lapInterval,
                    basePaceMs, iteration, bestError, bestPace, convergenceHistory,
                    solverResult, lapSplits, walkVars, evaluations, previous, call >>

Next ==
    \/ \E n \in IterationCaps : SetMaxIterations(n)
    \/ \E route \in Routes, segLen \in SegmentLengths :
         \E goal \in GoalTimes(route) : CallFindBasePace(route, goal, segLen)
    \/ \E route \in Routes, segLen \in SegmentLengths, interval \in LapIntervals :
         \E goal \in LapGoalTimes(route) :
            CallCalculateLapSplits(route, goal, interval, segLen)
    \/ Iterate
    \/ Return
    \/ DetailedSplits
    \/ BoundariesOfFunction

Spec == Init /\ [][Next]_vars

-----------------------------------------------------------------------------
(* The same calls with every walk followed sub-segment by sub-segment: one   *)
(* step per pass of the while loop of calculateTotalTime / calculateLapTime *)

StepSegmentLengths == { 0 - 50, 0, 50, 700 }

StepGoalPaces == { 240 }

StepGoalTimes(route) == { p * totalDistance(route) : p \in StepGoalPaces }

StepLapIntervals == { "1mile" }

\* a walk is inside its while loop
Walking == pc \in {"walk", "finalwalk", "lapwalk"}

\* where a walk that was at p returns to
Walked(p) ==
    CASE p = "walk"      -> "walked"
      [] p = "finalwalk" -> "finalwalked"
      [] p = "lapwalk"   -> "lapwalked"

\* let totalTime = 0; let currentDistance = start
StartWalk(start, end) ==
    /\ currentDistance' = start
    /\ walkEnd' = end
    /\ totalTime' = 0

\* the loop of findBasePaceForGoalTime calls calculateTotalTime
BeginLoopWalk ==
    /\ pc = "loop"
    /\ iteration < maxIterations
    /\ StartWalk(0, totalDistance(gpxParser))
    /\ evaluations' = evaluations + 1
    /\ pc' = "walk"
    /\ UNCHANGED << maxIterations, tolerance, baselineElevation, downhillAdjustments,
                    gpxParser, goalTimeSeconds, segmentLength, lapInterval,
                    basePaceMs, iteration, bestError, bestPace, convergenceHistory,
                    solverResult, lapSplits, previous, call >>

\* after the loop: the best pace is chosen and calculateTotalTime called
BeginFinalWalk ==
    /\ pc = "final"
    /\ basePaceMs' = FinalPace(Locals)
    /\ StartWalk(0, totalDistance(gpxParser))
    /\ evaluations' = evaluations + 1
    /\ pc' = "finalwalk"
    /\ UNCHANGED << maxIterations, tolerance, baselineElevation, downhillAdjustments,
                    gpxParser, goalTimeSeconds, segmentLength, lapInterval,
                    iteration, bestError, bestPace, convergenceHistory,
                    solverResult, lapSplits, previous, call >>

LapBoundaries == generateLapBoundaries(gpxParser, LAP_DISTANCES[lapInterval])

\* calculateDetailedSplits calls calculateLapTime for the next lap
BeginLapWalk ==
    /\ pc = "splits"
    /\ Len(lapSplits) + 1 < Len(LapBoundaries)
    /\ StartWalk(LapBoundaries[Len(lapSplits) + 1].distance,
                 LapBoundaries[Len(lapSplits) + 2].distance)
    /\ pc' = "lapwalk"
    /\ UNCHANGED << maxIterations, tolerance, baselineElevation, downhillAdjustments,
                    gpxParser, goalTimeSeconds, segmentLength, lapInterval,
                    basePaceMs, iteration, bestError, bestPace, convergenceHistory,
                    solverResult, lapSplits, evaluations, previous, call >>

\* const segmentEnd = Math.min(currentDistance + segmentLength, endDistance)
SegmentEnd(start, segLen, end) == Min(start + segLen, end)

\* a loop that never breaks
Breaks_Never(actualSegmentLength) == FALSE

\* if (actualSegmentLength <= 0) break
Breaks(actualSegmentLength) == actualSegmentLength <= 0

\* the array the result's downhillAdjustments refers to has become adjustments
Aliased(result, adjustments) ==
    IF result = None THEN result
    ELSE [result EXCEPT !.downhillAdjustments = adjustments]

\* the rest of a pass: the time of the sub-segment at the adjusted speed
StepWith(segmentEnd, adjusted) ==
    /\ totalTime' = totalTime + MulDiv(segmentEnd - currentDistance, 1000 * SpeedScale,
                                       adjusted.speed)
    /\ currentDistance' = segmentEnd
    /\ downhillAdjustments' = downhillAdjustments \o adjusted.pushed
    /\ solverResult' = Aliased(solverResult, downhillAdjustments \o adjusted.pushed)
    /\ pc' = pc

\* a pass of the while loop for the sub-segment that ends at segmentEnd
StepTo(segmentEnd) ==
    IF Breaks(segmentEnd - currentDistance)
    THEN /\ pc' = Walked(pc)
         /\ UNCHANGED << currentDistance, totalTime, downhillAdjustments, solverResult >>
    ELSE StepWith(segmentEnd,
                  applyGAPAdjustment(basePaceMs,
                                     getAverageGrade(gpxParser, currentDistance, segmentEnd),
                                     getAverageElevation(gpxParser, currentDistance,
                                                         segmentEnd),
                                     currentDistance, segmentEnd, baselineElevation))

\* one pass of the while loop of calculateTotalTime / calculateLapTime
WalkStep ==
    /\ Walking
    /\ currentDistance < walkEnd
    /\ StepTo(SegmentEnd(currentDistance, segmentLength, walkEnd))
    /\ UNCHANGED << maxIterations, tolerance, baselineElevation, gpxParser,
                    goalTimeSeconds, segmentLength, lapInterval, basePaceMs,
                    iteration, bestError, bestPace, convergenceHistory, lapSplits,
                    walkEnd, evaluations, previous, call >>

\* the while condition fails: return totalTime
WalkExit ==
    /\ Walking
    /\ ~(currentDistance < walkEnd)
    /\ pc' = Walked(pc)
    /\ UNCHANGED << maxIterations, tolerance, baselineElevation, downhillAdjustments,
                    gpxParser, goalTimeSeconds, segmentLength, lapInterval,
                    basePaceMs, iteration, bestError, bestPace, convergenceHistory,
                    solverResult, lapSplits, walkVars, evaluations, previous, call >>

\* what the walk that has ended returns; its pushes are already made
WalkResult == [time |-> totalTime, pushed |-> << >>]

\* the rest of the pass of the loop of findBasePaceForGoalTime
EndIteration ==
    /\ pc = "walked"
    /\ LoopTo(AfterTotal(Locals, goalTimeSeconds, tolerance, WalkResult))
    /\ UNCHANGED << maxIterations, tolerance, baselineElevation, gpxParser,
                    goalTimeSeconds, segmentLength, lapInterval, solverResult,
                    lapSplits, walkVars, evaluations, previous, call >>

\* findBasePaceForGoalTime returns
StepReturn ==
    /\ pc = "finalwalked"
    /\ ReturnResult(SolverResult(Locals, goalTimeSeconds, tolerance, basePaceMs,
                                 WalkResult))
    /\ pc' = IF lapInterval = NoLaps THEN "done" ELSE "splits"
    /\ UNCHANGED << maxIterations, tolerance, baselineElevation, gpxParser,
                    goalTimeSeconds, segmentLength, lapInterval, iteration,
                    bestError, bestPace, convergenceHistory, lapSplits, walkVars,
                    evaluations, previous, call >>

\* the rest of the pass of the loop of calculateDetailedSplits
EndLap ==
    /\ pc = "lapwalked"
    /\ lapSplits' =
           Append(lapSplits,
                  LapSplit(gpxParser, LapBoundaries[Len(lapSplits) + 1],
                           LapBoundaries[Len(lapSplits) + 2], Len(lapSplits) + 1,
                           IF lapSplits = << >> THEN 0
                           ELSE lapSplits[Len(lapSplits)].cumulativeTime,
                           WalkResult, downhillAdjustments))
    /\ pc' = "splits"
    /\ UNCHANGED << maxIterations, tolerance, baselineElevation, downhillAdjustments,
                    gpxParser, goalTimeSeconds, segmentLength, lapInterval,
                    basePaceMs, iteration, bestError, bestPace, convergenceHistory,
                    solverResult, walkVars, evaluations, previous, call >>

\* the loop of calculateDetailedSplits ends: calculateLapSplits returns
FinishLaps ==
    /\ pc = "splits"
    /\ ~(Len(lapSplits) + 1 < Len(LapBoundaries))
    /\ pc' = analyzeRoute(lapSplits)
    /\ UNCHANGED << maxIterations, tolerance, baselineElevation, downhillAdjustments,
                    gpxParser, goalTimeSeconds, segmentLength, lapInterval,
                    basePaceMs, iteration, bestError, bestPace, convergenceHistory,
                    solverResult, lapSplits, walkVars, evaluations, previous, call >>

StepNext ==
    \/ \E n \in IterationCaps : SetMaxIterations(n)
    \/ \E route \in Routes, segLen \in StepSegmentLengths :
         \E goal \in StepGoalTimes(route) : CallFindBasePace(route, goal, segLen)
    \/ \E route \in Routes, segLen \in StepSegmentLengths, interval \in StepLapIntervals :
         \E goal \in StepGoalTimes(route) :
            CallCalculateLapSplits(route, goal, interval, segLen)
    \/ BeginLoopWalk
    \/ WalkStep
    \/ WalkExit
    \/ EndIteration
    \/ BeginFinalWalk
    \/ StepReturn
    \/ BeginLapWalk
    \/ EndLap
    \/ FinishLaps

\* a call is in progress: one of its steps can be taken
Running == pc \notin {"idle", "done", "failed", "nolaps", "outside"}

\* a call in progress keeps executing. This is weak fairness of StepNext,
\* with the enabledness of a step of a call written as Running: the
\* JavaScript run-to-completion execution of a synchronous call
StepFairness == []<>(~Running) \/ []<><<StepNext>>_vars

StepSpec == Init /\ [][StepNext]_vars /\ StepFairness

-----------------------------------------------------------------------------
(* Two calls of findBasePaceForGoalTime on one solver, for the same route   *)
(* and sub-segment length: the second for a slower goal                      *)

\* goal times in ms
PairGoalTimes == { 300000, 393900, 394000, 396000, 404500, 407500, 480000, 1440000 }

\* the result of the first call, kept by the caller
Kept(goal, result) ==
    [ goal       |-> goal,
      basePaceMs |-> result.basePaceMs,
      converged  |-> result.converged,
      iterations |-> result.iterations ]

\* solver.findBasePaceForGoalTime(gpxParser, goal, segmentLength) once more
CallAgain(goal) ==
    /\ pc = "done"
    /\ lapInterval = NoLaps
    /\ previous = None
    /\ goal > goalTimeSeconds
    /\ previous' = Kept(goalTimeSeconds, solverResult)
    /\ UNCHANGED << lapInterval, call >>
    /\ EnterSolver(gpxParser, goal, segmentLength)

PairNext ==
    \/ \E route \in Routes, segLen \in SegmentLengths, goal \in PairGoalTimes :
         CallFindBasePace(route, goal, segLen)
    \/ Iterate
    \/ Return
    \/ \E goal \in PairGoalTimes : CallAgain(goal)

PairSpec == Init /\ [][PairNext]_vars

-----------------------------------------------------------------------------
(* findBasePaceForGoalTime, other calls on the same solver, and the same    *)
(* findBasePaceForGoalTime again                                            *)

AgainRoutes == { RouteCatalogue[2], RouteCatalogue[5] }

\* the lap intervals of the analyses in between
AgainIntervals == { "400m", "1mile" }

\* the grades, in 1/10000, of the applyGAPAdjustment calls in between
AgainGrades == { 0 - 1200, 0 }

\* the first call's arguments and what it returned, with the kinds of calls
\* made since and whether the first call was repeated
Held ==
    IF previous = None
    THEN [ gpxParser       |-> gpxParser,
           goalTimeSeconds |-> goalTimeSeconds,
           segmentLength   |-> segmentLength,
           result          |-> solverResult,
           made            |-> { },
           again           |-> FALSE ]
    ELSE previous

\* the solver has returned to its caller, who may make a call of this kind
Between(kind) ==
    /\ pc = "done"
    /\ solverResult # None
    /\ ~Held.again
    /\ kind \notin Held.made
    /\ previous' = [Held EXCEPT !.made = @ \cup {kind}]

\* solver.findBasePaceForGoalTime(route, goal, segLen) with other arguments
SolveBetween(route, goal, segLen) ==
    /\ Between("solve")
    /\ << route, goal, segLen >>
         # << Held.gpxParser, Held.goalTimeSeconds, Held.segmentLength >>
    /\ lapInterval' = NoLaps
    /\ call' = None
    /\ EnterSolver(route, goal, segLen)

\* calculateLapSplits with the solver's downhillAdjustments emptied before
\* the lap interval is looked up
AnalyseBetween_ResetFirst(route, goal, interval, segLen) ==
    /\ Between("laps")
    /\ lapInterval' = interval
    /\ call' = None
    /\ IF Unsupported(interval)
       THEN /\ pc' = "failed"
            /\ downhillAdjustments' = << >>
            /\ solverResult' = Aliased(solverResult, << >>)
            /\ UNCHANGED << maxIterations, tolerance, baselineElevation,
                            gpxParser, goalTimeSeconds, segmentLength, basePaceMs,
                            iteration, bestError, bestPace, convergenceHistory,
                            lapSplits, walkVars, evaluations >>
       ELSE EnterSolver(route, goal, segLen)

\* lapCalculator.calculateLapSplits(route, goal, interval, segLen) on the
\* calculator that holds this solver
AnalyseBetween(route, goal, interval, segLen) ==
    /\ Between("laps")
    /\ lapInterval' = interval
    /\ call' = None
    /\ IF Unsupported(interval)
       THEN /\ pc' = "failed"
            /\ UNCHANGED << maxIterations, tolerance, baselineElevation,
                            downhillAdjustments, gpxParser, goalTimeSeconds,
                            segmentLength, basePaceMs, iteration, bestError,
                            bestPace, convergenceHistory, solverResult, lapSplits,
                            walkVars, evaluations >>
       ELSE EnterSolver(route, goal, segLen)

\* solver.applyGAPAdjustment(speedMs, grade, 0, start, end): a record is
\* pushed to the solver's downhillAdjustments, the array of the last result
AdjustBetween(speedMs, grade, start, end) ==
    /\ Between("adjust")
    /\ call' = [ method     |-> "applyGAPAdjustment",
                 basePaceMs |-> speedMs,
                 grade      |-> grade ]
    /\ downhillAdjustments'
         = downhillAdjustments
             \o applyGAPAdjustment(speedMs, grade, 0, start, end,
                                   baselineElevation).pushed
    /\ solverResult'
         = Aliased(solverResult,
                   downhillAdjustments
                     \o applyGAPAdjustment(speedMs, grade, 0, start, end,
                                           baselineElevation).pushed)
    /\ UNCHANGED << maxIterations, tolerance, baselineElevation, gpxParser,
                    goalTimeSeconds, segmentLength, lapInterval, basePaceMs,
                    iteration, bestError, bestPace, convergenceHistory, pc,
                    lapSplits, walkVars, evaluations >>

\* the first call again, on a solver that keeps its downhillAdjustments
SolveAgain_KeepingAdjustments ==
    /\ pc = "done"
    /\ solverResult # None
    /\ ~Held.again
    /\ previous' = [Held EXCEPT !.again = TRUE]
    /\ lapInterval' = NoLaps
    /\ call' = None
    /\ gpxParser' = Held.gpxParser
    /\ goalTimeSeconds' = Held.goalTimeSeconds
    /\ segmentLength' = Held.segmentLength
    /\ SetLocals([EnterLoop(Held.gpxParser, Held.goalTimeSeconds)
                     EXCEPT !.downhillAdjustments = downhillAdjustments])
    /\ pc' = "loop"
    /\ evaluations' = 0
    /\ UNCHANGED << maxIterations, tolerance, baselineElevation, solverResult,
                    lapSplits, walkVars >>

\* solver.findBasePaceForGoalTime with the arguments of the first call
SolveAgain ==
    /\ pc = "done"
    /\ solverResult # None
    /\ ~Held.again
    /\ previous' = [Held EXCEPT !.again = TRUE]
    /\ lapInterval' = NoLaps
    /\ call' = None
    /\ EnterSolver(Held.gpxParser, Held.goalTimeSeconds, Held.segmentLength)

AgainNext ==
    \/ \E route \in AgainRoutes, segLen \in SegmentLengths :
         \E goal \in LapGoalTimes(route) : CallFindBasePace(route, goal, segLen)
    \/ Iterate
    \/ Return
    \/ DetailedSplits
    \/ \E route \in AgainRoutes, segLen \in SegmentLengths :
         \E goal \in LapGoalTimes(route) : SolveBetween(route, goal, segLen)
    \/ \E route \in AgainRoutes, segLen \in SegmentLengths :
         \E goal \in LapGoalTimes(route), interval \in AgainIntervals :
            AnalyseBetween(route, goal, interval, segLen)
    \/ \E grade \in AgainGrades : AdjustBetween(4000, grade, 0, 50)
    \/ SolveAgain

AgainSpec == Init /\ [][AgainNext]_vars

-----------------------------------------------------------------------------
(* calculateLapSplits on degenerate routes *)

\* a route of a single point, of total distance 0, and a short flat route
DegenerateRoutes == { RouteFrom(0, 1000, << >>), RouteCatalogue[6] }

\* goal times in ms
DegenerateGoalTimes == { 120000, 240000 }

DegenerateNext ==
    \/ \E route \in DegenerateRoutes, segLen \in SegmentLengths :
         \E goal \in DegenerateGoalTimes, interval \in LapIntervals :
            CallCalculateLapSplits(route, goal, interval, segLen)
    \/ Iterate
    \/ Return
    \/ DetailedSplits
    \/ BoundariesOfFunction

DegenerateSpec == Init /\ [][DegenerateNext]_vars

-----------------------------------------------------------------------------
(* calculateLapSplits on routes whose descents begin or end away from the    *)
(* sub-segment grid of the whole-route walk                                  *)

LapRoutes ==
    { \* flat for a mile, then a 12% descent
      RouteFrom(0, 10000, << <<1609, 0>>, <<391, -1200>> >>),
      \* a 12% descent that ends at 410 m, then flat
      RouteFrom(0, 10000, << <<410, -1200>>, <<1590, 0>> >>),
      RouteCatalogue[2] }

LapNext ==
    \/ \E route \in LapRoutes, segLen \in SegmentLengths :
         \E goal \in LapGoalTimes(route), interval \in LapIntervals :
            CallCalculateLapSplits(route, goal, interval, segLen)
    \/ Iterate
    \/ Return
    \/ DetailedSplits
    \/ BoundariesOfFunction

LapSpec == Init /\ [][LapNext]_vars

-----------------------------------------------------------------------------
(* Direct calls of the solver's methods applyDownhillSpeedCap and            *)
(* applyGAPAdjustment                                                        *)

\* grades in 1/10000, from -100% to +100%
CallGrades ==
    { 0 - 10000, 0 - 7000, 0 - 5000, 0 - 3000, 0 - 2500, 0 - 2000, 0 - 1650,
      0 - 801, 0 - 800, 0 - 500, 0, 500, 3000, 10000 }

\* base speeds in mm/s
CallBaseSpeeds == { 500, 1390, 4000, 6666, 500000 }

\* theoretical speeds in mm/s
CallTheoreticalSpeeds == { 0 - 3000, 0, 1000, 4000, 7000, 20000 }

\* segment elevations in cm
CallElevations == { 0 - 40000, 0, 300000 }

\* solver.applyDownhillSpeedCap(theoreticalSpeed, speedMs, grade)
CallApplyDownhillSpeedCap(theoreticalSpeed, speedMs, grade) ==
    /\ pc = "idle"
    /\ call' = [ method           |-> "applyDownhillSpeedCap",
                 theoreticalSpeed |-> theoreticalSpeed,
                 basePaceMs       |-> speedMs,
                 grade            |-> grade,
                 returned         |-> applyDownhillSpeedCap(theoreticalSpeed, speedMs,
                                                            grade) ]
    /\ UNCHANGED << maxIterations, tolerance, baselineElevation, downhillAdjustments,
                    gpxParser, goalTimeSeconds, segmentLength, lapInterval,
                    basePaceMs, iteration, bestError, bestPace, convergenceHistory,
                    pc, solverResult, lapSplits, walkVars, evaluations, previous >>

\* solver.applyGAPAdjustment(speedMs, grade, segmentElevation): without
\* segment boundaries nothing is pushed to downhillAdjustments
CallApplyGAPAdjustment(speedMs, grade, segmentElevation) ==
    /\ pc = "idle"
    /\ call' = [ method           |-> "applyGAPAdjustment",
                 basePaceMs       |-> speedMs,
                 grade            |-> grade,
                 segmentElevation |-> segmentElevation,
                 \* the local originalSpeed: actualSpeed before the cap
                 originalSpeed    |-> GradeSpeed(speedMs, grade),
                 returned         |-> applyGAPAdjustment(speedMs, grade, segmentElevation,
                                                         0, 0, baselineElevation).speed ]
    /\ UNCHANGED << maxIterations, tolerance, baselineElevation, downhillAdjustments,
                    gpxParser, goalTimeSeconds, segmentLength, lapInterval,
                    basePaceMs, iteration, bestError, bestPace, convergenceHistory,
                    pc, solverResult, lapSplits, walkVars, evaluations, previous >>

CallNext ==
    \/ \E theoreticalSpeed \in CallTheoreticalSpeeds, speedMs \in CallBaseSpeeds :
         \E grade \in CallGrades :
            CallApplyDownhillSpeedCap(theoreticalSpeed, speedMs, grade)
    \/ \E speedMs \in CallBaseSpeeds, grade \in CallGrades :
         \E segmentElevation \in CallElevations :
            CallApplyGAPAdjustment(speedMs, grade, segmentElevation)

CallSpec == Init /\ [][CallNext]_vars

-----------------------------------------------------------------------------
(* analyzeRoute on given lap splits: averageGrade in 1/10000, averagePace   *)
(* in s/km                                                                  *)

\* split replaces best when it is strictly beyond it in field
Beats(split, best, field, upwards) ==
    IF upwards THEN split[field] > best[field] ELSE split[field] < best[field]

\* the loop over the splits from split i on, for one of the four laps
RECURSIVE ScanLaps(_, _, _, _, _)
ScanLaps(splits, i, best, field, upwards) ==
    IF i > Len(splits) THEN best
    ELSE ScanLaps(splits, i + 1,
                  IF Beats(splits[i], best, field, upwards) THEN splits[i] ELSE best,
                  field, upwards)

\* paces.reduce((a, b) => a + b, 0), from pace i on
RECURSIVE SumFrom(_, _)
SumFrom(paces, i) == IF i > Len(paces) THEN 0 ELSE paces[i] + SumFrom(paces, i + 1)

\* the sum of (pace - avgPace)^2 with avgPace = sum / n, times n^2
RECURSIVE SquaresFrom(_, _, _)
SquaresFrom(paces, total, i) ==
    IF i > Len(paces) THEN 0
    ELSE (Len(paces) * paces[i] - total) * (Len(paces) * paces[i] - total)
           + SquaresFrom(paces, total, i + 1)

\* Math.sqrt, rounded down
Sqrt(x) == CHOOSE r \in 0..x : r * r <= x /\ (r + 1) * (r + 1) > x

\* the deviation with the divisor n - 1
PaceVariation_Sample(paces) ==
    IF Len(paces) < 2 THEN 0
    ELSE Sqrt(SquaresFrom(paces, SumFrom(paces, 1), 1)
                \div (Len(paces) * Len(paces) * (Len(paces) - 1)))

\* Calculate pace variation, in s/km
PaceVariation(paces) ==
    Sqrt(SquaresFrom(paces, SumFrom(paces, 1), 1)
           \div (Len(paces) * Len(paces) * Len(paces)))

\* the RouteAnalysis of analyzeRoute for at least one split, without the
\* route's totals
RouteAnalysis(splits) ==
    [ hardestLap    |-> ScanLaps(splits, 1, splits[1], "averageGrade", TRUE),
      easiestLap    |-> ScanLaps(splits, 1, splits[1], "averageGrade", FALSE),
      slowestLap    |-> ScanLaps(splits, 1, splits[1], "averagePace", TRUE),
      fastestLap    |-> ScanLaps(splits, 1, splits[1], "averagePace", FALSE),
      paceVariation |-> PaceVariation([k \in 1..Len(splits) |->
                                          splits[k].averagePace]) ]

AnalysisGrades == { 0 - 600, 0, 900 }

AnalysisPaces == { 240, 300, 420 }

MaxAnalysedLaps == 3

\* the lap splits handed to analyzeRoute
AnalysedSplits ==
    UNION { [ 1..n -> [ averageGrade : AnalysisGrades,
                        averagePace  : AnalysisPaces ] ] : n \in 1..MaxAnalysedLaps }

\* the splits with their lap numbers
Numbered(laps) ==
    [ k \in 1..Len(laps) |-> [ lapNumber    |-> k,
                               averageGrade |-> laps[k].averageGrade,
                               averagePace  |-> laps[k].averagePace ] ]

\* lapCalculator.analyzeRoute(gpxParser, splits), once
CallAnalyzeRoute(splits) ==
    /\ pc = "idle"
    /\ call = None
    /\ call' = [ method    |-> "analyzeRoute",
                 lapSplits |-> splits,
                 returned  |-> RouteAnalysis(splits) ]
    /\ UNCHANGED << maxIterations, tolerance, baselineElevation, downhillAdjustments,
                    gpxParser, goalTimeSeconds, segmentLength, lapInterval,
                    basePaceMs, iteration, bestError, bestPace, convergenceHistory,
                    pc, solverResult, lapSplits, walkVars, evaluations, previous >>

AnalysisNext == \E laps \in AnalysedSplits : CallAnalyzeRoute(Numbered(laps))

AnalysisSpec == Init /\ [][AnalysisNext]_vars

-----------------------------------------------------------------------------
(* calculateEffortLevel on given average grades, in 1/10000                 *)

\* the levels without "Moderate"
calculateEffortLevel_NoModerate(grade) ==
    IF grade > 800 THEN "Very Hard"
    ELSE IF grade > 400 THEN "Hard"
    ELSE IF grade > -200 THEN "Easy"
    ELSE IF grade > -500 THEN "Fast"
    ELSE "Very Fast"

\* Calculate effort level based on grade: gradePercent = grade * 100
calculateEffortLevel(grade) ==
    IF grade > 800 THEN "Very Hard"
    ELSE IF grade > 400 THEN "Hard"
    ELSE IF grade > 100 THEN "Moderate"
    ELSE IF grade > -200 THEN "Easy"
    ELSE IF grade > -500 THEN "Fast"
    ELSE "Very Fast"

\* average grades from -10% to +10% in steps of 0.1%
EffortGrades == { 10 * k - 1000 : k \in 0..200 }

\* lapCalculator.calculateEffortLevel(grade)
CallCalculateEffortLevel(grade) ==
    /\ pc = "idle"
    /\ call' = [ method   |-> "calculateEffortLevel",
                 grade    |-> grade,
                 returned |-> calculateEffortLevel(grade) ]
    /\ UNCHANGED << maxIterations, tolerance, baselineElevation, downhillAdjustments,
                    gpxParser, goalTimeSeconds, segmentLength, lapInterval,
                    basePaceMs, iteration, bestError, bestPace, convergenceHistory,
                    pc, solverResult, lapSplits, walkVars, evaluations, previous >>

EffortNext == \E grade \in EffortGrades : CallCalculateEffortLevel(grade)

EffortSpec == Init /\ [][EffortNext]_vars

-----------------------------------------------------------------------------
(* calculateTotalTime of one route at two base speeds                        *)

\* base speeds in mm/s over the envelope, on both sides of the table's
\* first row (2 m/s) and last row (5.5 m/s)
TotalTimeSpeeds ==
    { 1389, 1600, 1900, 1990, 2000, 2010, 2100, 3000, 4000, 5400, 5490, 5500,
      5510, 5600, 6000, 6667 }

\* solver.calculateTotalTime(route, slower, segLen) and
\* solver.calculateTotalTime(route, faster, segLen); the records pushed to
\* downhillAdjustments are left out
CallCalculateTotalTime(route, slower, faster, segLen) ==
    /\ pc = "idle"
    /\ call = None
    /\ slower < faster
    /\ call' = [ method        |-> "calculateTotalTime",
                 gpxParser     |-> route,
                 segmentLength |-> segLen,
                 slower        |-> slower,
                 faster        |-> faster,
                 slowerTime    |-> calculateTotalTime(route, slower, segLen,
                                                      baselineElevation).time,
                 fasterTime    |-> calculateTotalTime(route, faster, segLen,
                                                      baselineElevation).time ]
    /\ UNCHANGED << maxIterations, tolerance, baselineElevation, downhillAdjustments,
                    gpxParser, goalTimeSeconds, segmentLength, lapInterval,
                    basePaceMs, iteration, bestError, bestPace, convergenceHistory,
                    pc, solverResult, lapSplits, walkVars, evaluations, previous >>

TotalTimeNext ==
    \E route \in Routes, segLen \in SegmentLengths :
        \E slower \in TotalTimeSpeeds, faster \in TotalTimeSpeeds :
            CallCalculateTotalTime(route, slower, faster, segLen)

TotalTimeSpec == Init /\ [][TotalTimeNext]_vars

-----------------------------------------------------------------------------
(* Direct calls of the table lookups lookupSpeed and getEquivFlatSpeed       *)

\* speeds in mm/s, below, inside and above the table's range
LookupSpeeds ==
    { 1500 + 50 * k : k \in 0..85 }
      \cup { 0, 1999, 2001, 2137, 3333, 4999, 5499, 5501 }

\* powers in mW/kg, below, inside and above the table's range
LookupPowers ==
    { 7000 + 500 * k : k \in 0..32 }
      \cup { 0, 7599, 7600, 7601, 11640, 22439, 22440, 22441 }

\* lookupSpeed(speedMs, column)
CallLookupSpeed(speedMs, column) ==
    /\ pc = "idle"
    /\ call' = [ method   |-> "lookupSpeed",
                 speedMs  |-> speedMs,
                 column   |-> column,
                 returned |-> lookupSpeed(speedMs, column) ]
    /\ UNCHANGED << maxIterations, tolerance, baselineElevation, downhillAdjustments,
                    gpxParser, goalTimeSeconds, segmentLength, lapInterval,
                    basePaceMs, iteration, bestError, bestPace, convergenceHistory,
                    pc, solverResult, lapSplits, walkVars, evaluations, previous >>

\* getEquivFlatSpeed(wKg)
CallGetEquivFlatSpeed(wKg) ==
    /\ pc = "idle"
    /\ call' = [ method   |-> "getEquivFlatSpeed",
                 wKg      |-> wKg,
                 returned |-> getEquivFlatSpeed(wKg) ]
    /\ UNCHANGED << maxIterations, tolerance, baselineElevation, downhillAdjustments,
                    gpxParser, goalTimeSeconds, segmentLength, lapInterval,
                    basePaceMs, iteration, bestError, bestPace, convergenceHistory,
                    pc, solverResult, lapSplits, walkVars, evaluations, previous >>

\* getEquivFlatSpeed(lookupSpeed(speedMs, "energy_j_kg_s"))
CallEquivOfLookup(speedMs) ==
    /\ pc = "idle"
    /\ call' = [ method   |-> "getEquivFlatSpeed(lookupSpeed)",
                 speedMs  |-> speedMs,
                 wKg      |-> lookupSpeed(speedMs, "energy_j_kg_s"),
                 returned |-> getEquivFlatSpeed(lookupSpeed(speedMs,
                                                            "energy_j_kg_s")) ]
    /\ UNCHANGED << maxIterations, tolerance, baselineElevation, downhillAdjustments,
                    gpxParser, goalTimeSeconds, segmentLength, lapInterval,
                    basePaceMs, iteration, bestError, bestPace, convergenceHistory,
                    pc, solverResult, lapSplits, walkVars, evaluations, previous >>

TableNext ==
    \/ \E speedMs \in LookupSpeeds, column \in {"energy_j_kg_m", "energy_j_kg_s"} :
         CallLookupSpeed(speedMs, column)
    \/ \E wKg \in LookupPowers : CallGetEquivFlatSpeed(wKg)
    \/ \E speedMs \in LookupSpeeds : CallEquivOfLookup(speedMs)

TableSpec == Init /\ [][TableNext]_vars

-----------------------------------------------------------------------------
(* findBasePaceForGoalTime on a solver whose baseline elevation was set     *)

\* baseline elevations in cm: sea level and 600 m
BaselineElevations == { 0, 60000 }

AltGoalPaces == { 165, 240, 360 }

AltGoalTimes(route) == { p * totalDistance(route) : p \in AltGoalPaces }

AltNext ==
    \/ \E elevation \in BaselineElevations : SetBaselineElevation(elevation)
    \/ \E route \in Routes, segLen \in SegmentLengths :
         \E goal \in AltGoalTimes(route) : CallFindBasePace(route, goal, segLen)
    \/ Iterate
    \/ Return

AltSpec == Init /\ [][AltNext]_vars

-----------------------------------------------------------------------------
(* calculateLapSplits with supported and unsupported lap intervals on a     *)
(* solver that has solved before                                            *)

RejectIntervals == { "400m", "2km", "" }

RejectNext ==
    \/ \E elevation \in BaselineElevations : SetBaselineElevation(elevation)
    \/ \E route \in AgainRoutes, segLen \in SegmentLengths :
         \E goal \in LapGoalTimes(route) : CallFindBasePace(route, goal, segLen)
    \/ Iterate
    \/ Return
    \/ \E route \in AgainRoutes, segLen \in SegmentLengths :
         \E goal \in LapGoalTimes(route), interval \in RejectIntervals :
            AnalyseBetween(route, goal, interval, segLen)
    \/ DetailedSplits

RejectSpec == Init /\ [][RejectNext]_vars

-----------------------------------------------------------------------------
(* Properties of findBasePaceForGoalTime *)

\* findBasePaceForGoalTime has returned
Returned == pc \in {"splits", "done"}

\* the solver is as constructed: 20 iterations, 1 s
DefaultConfig == maxIterations = 20 /\ tolerance = DefaultTolerance

\* the average pace goal / distance lies within 2:30 - 12:00 min/km
InEnvelope(gpx, goal) ==
    /\ goal >= MaxSpeedPace * totalDistance(gpx)
    /\ goal <= MinSpeedPace * totalDistance(gpx)

\* some trial speed of the search lies on or beyond a bound of the envelope
ReachedBound ==
    \E k \in 1..Len(convergenceHistory) :
        \/ convergenceHistory[k].basePaceMs >= paceToSpeed(MaxSpeedPace)
        \/ convergenceHistory[k].basePaceMs <= paceToSpeed(MinSpeedPace)

ConvergedInTime ==
    /\ solverResult.converged
    /\ Abs(solverResult.predictedTime - goalTimeSeconds) <= tolerance
    /\ solverResult.iterations <= maxIterations

ExitedAtMaxIterations ==
    /\ Returned
    /\ solverResult.iterations = maxIterations
    /\ \A k \in 1..Len(convergenceHistory) :
           Abs(convergenceHistory[k].error) > tolerance

\* C2: when the loop exits at maxIterations and no recorded step met the
\* tolerance, the returned base pace is the trial speed of a recorded step of
\* lowest |error|, and the returned finalError is that step's error
C2_ReturnsBestIterate ==
    ExitedAtMaxIterations =>
        \E k \in 1..Len(convergenceHistory) :
            /\ \A j \in 1..Len(convergenceHistory) :
                   Abs(convergenceHistory[k].error) <= Abs(convergenceHistory[j].error)
            /\ solverResult.basePaceMs = convergenceHistory[k].basePaceMs
            /\ solverResult.finalError = convergenceHistory[k].error

\* C3: in every SolverResult, converged is true exactly when |finalError| is
\* within the tolerance, finalError is predictedTime - goalTimeSeconds, and
\* predictedTime is the total time of the route at the returned base pace
C3_ConvergedIffWithinTolerance ==
    Returned =>
        /\ solverResult.converged <=> (Abs(solverResult.finalError) <= tolerance)
        /\ solverResult.finalError = solverResult.predictedTime - goalTimeSeconds
        /\ solverResult.predictedTime
             = calculateTotalTime(gpxParser, solverResult.basePaceMs, segmentLength,
                                  baselineElevation).time

\* a result reported converged although the loop ran all its passes without
\* a recorded step within the tolerance
C3_Witness ==
    /\ ExitedAtMaxIterations
    /\ solverResult.converged

\* C4: a goal so short that its average speed is faster than the 2:30 min/km
\* bound is returned not converged, with a non-empty convergence history
C4_ImpossibleGoalNotConverged ==
    (Returned /\ InitialGuess(gpxParser, goalTimeSeconds) > paceToSpeed(MaxSpeedPace))
        => /\ ~solverResult.converged
           /\ Len(solverResult.convergenceHistory) > 0

\* C6: every DownhillAdjustment the solver holds has actualSpeed at most its
\* theoreticalSpeed and at least the base pace it was computed for
C6_DownhillCapInvariant ==
    \A k \in 1..Len(downhillAdjustments) :
        /\ downhillAdjustments[k].actualSpeed <= downhillAdjustments[k].theoreticalSpeed
        /\ downhillAdjustments[k].actualSpeed >= downhillAdjustments[k].basePaceMs

\* an adjustment held up by the floor at the base pace: the limited speed
\* would have been below it
C6_Witness ==
    \E k \in 1..Len(downhillAdjustments) :
        /\ downhillAdjustments[k].actualSpeed = downhillAdjustments[k].basePaceMs
        /\ applyDownhillSpeedCap_NoFloor(downhillAdjustments[k].theoreticalSpeed,
                                         downhillAdjustments[k].basePaceMs,
                                         downhillAdjustments[k].grade)
             < downhillAdjustments[k].basePaceMs

-----------------------------------------------------------------------------
(* Termination *)

\* the walk followed step by step returns what Walk computes at once
StepwiseWalkAgrees ==
    pc \in {"walked", "finalwalked"} =>
        totalTime = calculateTotalTime(gpxParser, basePaceMs, segmentLength,
                                       baselineElevation).time

\* a pass of a walk's loop moves currentDistance strictly towards the end
\* distance and not beyond it, or it leaves the loop
AdvancesOrBreaks ==
    Walking =>
        \/ pc' = pc /\ currentDistance' > currentDistance /\ currentDistance' <= walkEnd
        \/ pc' = Walked(pc)

\* C5: every call terminates: calculateTotalTime is evaluated at most
\* maxIterations times and once more, every pass of a calculateTotalTime /
\* calculateLapTime walk strictly advances currentDistance towards the end
\* distance or breaks, whatever the sub-segment length (zero and negative
\* included), and a call in progress returns
C5_Terminates ==
    /\ [](evaluations <= maxIterations + 1)
    /\ [][AdvancesOrBreaks]_vars
    /\ [](Running => <>(pc = "done"))

\* a call with a sub-segment length of zero or less has returned after
\* maxIterations + 1 evaluations, its lap walks included
C5_Witness ==
    /\ pc = "done"
    /\ segmentLength <= 0
    /\ lapInterval # NoLaps
    /\ Len(lapSplits) >= 2
    /\ evaluations = maxIterations + 1

-----------------------------------------------------------------------------
(* Properties of calculateLapSplits *)

\* calculateLapSplits has returned
LapsDone == pc = "done" /\ lapInterval # NoLaps

LapTimes == [k \in 1..Len(lapSplits) |-> lapSplits[k].lapTime]

LapLengths == [k \in 1..Len(lapSplits) |-> lapSplits[k].lapDistance]

\* the rounding of the sub-segment times, in ms, allowed between two sums
LapTimeSlack == 100

\* C7: for every supported lap length the lap times sum to the predicted
\* time of the solver's result
C7_LapTimesSumToPredictedTime ==
    LapsDone => Abs(SeqSum(LapTimes) - solverResult.predictedTime) <= LapTimeSlack

\* C8: the first lap starts at 0, every lap starts where the previous one
\* ended, laps are numbered from 1, the last lap ends at the total distance,
\* and the lap distances sum to the total distance
C8_LapsPartitionRoute ==
    LapsDone =>
        /\ Len(lapSplits) >= 1
        /\ lapSplits[1].startDistance = 0
        /\ \A k \in 1..Len(lapSplits) :
               /\ lapSplits[k].lapNumber = k
               /\ lapSplits[k].lapDistance
                    = lapSplits[k].endDistance - lapSplits[k].startDistance
               /\ k > 1 => lapSplits[k].startDistance = lapSplits[k - 1].endDistance
        /\ lapSplits[Len(lapSplits)].endDistance = totalDistance(gpxParser)
        /\ SeqSum(LapLengths) = totalDistance(gpxParser)

\* laps that end in a partial lap
C8_Witness ==
    /\ LapsDone
    /\ Len(lapSplits) >= 2
    /\ lapSplits[Len(lapSplits)].lapDistance < LAP_DISTANCES[lapInterval]
    /\ lapSplits[1].lapDistance = LAP_DISTANCES[lapInterval]

-----------------------------------------------------------------------------
(* Flat routes *)

ConstantElevation(gpx) ==
    \A i \in 1..Len(gpx) : gpx[i].elevation = gpx[1].elevation

\* the time of the route at the returned base pace on flat ground at the
\* baseline, distance / speed, is within the tolerance of the goal
NaivePaceWithinTolerance ==
    Abs(MulDiv(totalDistance(gpxParser), 1000 * SpeedScale, solverResult.basePaceMs)
          - goalTimeSeconds) <= tolerance

\* C10 as stated: on a route of constant elevation the solver converges and
\* the solved base speed is distance / goal time within the tolerance
C10_FlatRouteNaivePace ==
    (Returned /\ DefaultConfig /\ ConstantElevation(gpxParser))
        => solverResult.converged /\ NaivePaceWithinTolerance

\* C10, amended: on a route of constant elevation equal to the baseline
\* elevation the solver converges and the solved base speed is distance /
\* goal time within the tolerance
C10_FlatRouteAtBaseline ==
    (Returned /\ DefaultConfig /\ ConstantElevation(gpxParser)
       /\ gpxParser[1].elevation = baselineElevation)
        => solverResult.converged /\ NaivePaceWithinTolerance

\* a flat route at the baseline, solved for a goal inside the table's speeds
C10_Witness ==
    /\ Returned /\ DefaultConfig /\ ConstantElevation(gpxParser)
    /\ gpxParser[1].elevation = baselineElevation
    /\ lookupSpeed(solverResult.basePaceMs, "energy_j_kg_m") # NaN
    /\ solverResult.converged

-----------------------------------------------------------------------------
(* Monotonicity in the goal *)

\* both calls have returned, the second for the slower goal
BothReturned == pc = "done" /\ previous # None /\ previous.goal < goalTimeSeconds

C12_UnsupportedKeysRaise ==
    (pc # "idle" /\ lapInterval # NoLaps) =>
        (pc = "failed" <=> lapInterval \notin DOMAIN LAP_DISTANCES)

\* C13: when generateLapBoundaries yields fewer than two boundaries,
\* calculateLapSplits fails with the no-laps error: it returns only with a
\* lap split or more
C13_NoLapsFails ==
    (lapInterval \in DOMAIN LAP_DISTANCES /\ pc \in {"done", "nolaps"}) =>
        /\ pc = "nolaps"
             <=> Len(generateLapBoundaries(gpxParser, LAP_DISTANCES[lapInterval])) < 2
        /\ pc = "done" => Len(lapSplits) >= 1

\* the call on a route of total distance 0 has failed after the solver ran
C13_Witness ==
    /\ pc = "nolaps"
    /\ totalDistance(gpxParser) = 0
    /\ solverResult # None
    /\ lapSplits = << >>

\* C14: once findBasePaceForGoalTime has returned its SolverResult, no later
\* step of the lap analysis on the same solver changes a field of it: its
\* downhillAdjustments holds after the lap analysis what it held at return
C14_ResultUnchangedAfterReturn ==
    [][Returned => solverResult' = solverResult]_vars

\* a base speed between 12:00 and 2:30 min/km
InSpeedEnvelope(speedMs) ==
    /\ speedMs >= paceToSpeed(MinSpeedPace)
    /\ speedMs <= paceToSpeed(MaxSpeedPace)

\* C15: every trial speed recorded in convergenceHistory, that of iteration 0
\* included, and the returned basePaceMs lie between 12:00 and 2:30 min/km
C15_TrialSpeedsInEnvelope ==
    /\ \A k \in 1..Len(convergenceHistory) :
           InSpeedEnvelope(convergenceHistory[k].basePaceMs)
    /\ Returned => InSpeedEnvelope(solverResult.basePaceMs)

\* C18: the downhillAdjustments of a returned SolverResult are exactly the
\* records of one walk of the route at the returned base pace: none was
\* computed at another trial pace, and no two cover the same span
C18_AdjustmentsOfReturnedPace ==
    pc = "splits" =>
        LET adjustments == solverResult.downhillAdjustments
        IN  /\ \A k \in 1..Len(adjustments) :
                   adjustments[k].basePaceMs = solverResult.basePaceMs
            /\ \A j, k \in 1..Len(adjustments) :
                   (/\ adjustments[j].startDistance = adjustments[k].startDistance
                    /\ adjustments[j].endDistance = adjustments[k].endDistance) => j = k
            /\ adjustments = calculateTotalTime(gpxParser, solverResult.basePaceMs,
                                                segmentLength, baselineElevation).pushed

\* C19: a LapSplit's hasDownhillSpeedCap is true exactly when the walk of
\* that lap at the solved base pace had the cap reduce the speed on one of
\* its sub-segments
C19_FlagOfLap ==
    pc = "done" =>
        \A k \in 1..Len(lapSplits) :
            lapSplits[k].hasDownhillSpeedCap
              <=> Walk(gpxParser, solverResult.basePaceMs, segmentLength,
                       lapSplits[k].startDistance, lapSplits[k].endDistance,
                       baselineElevation).pushed # << >>

-----------------------------------------------------------------------------
(* The convergence history *)

\* the solver is in the loop of findBasePaceForGoalTime or past it
Invoked == pc \in {"loop", "final", "splits", "done", "nolaps", "outside"}

\* history is a prefix of longer
IsPrefix(history, longer) ==
    /\ Len(history) <= Len(longer)
    /\ SubSeq(longer, 1, Len(history)) = history

\* step k carries iteration k - 1 and error = predictedTime - goalTimeSeconds,
\* only the last step is within the tolerance, at most maxIterations steps
OrderedLog(history) ==
    /\ Len(history) <= maxIterations
    /\ \A k \in 1..Len(history) :
           /\ history[k].iteration = k - 1
           /\ history[k].error = history[k].predictedTime - goalTimeSeconds
           /\ k < Len(history) => Abs(history[k].error) > tolerance

\* C21: the convergenceHistory of an invocation is a non-empty, append-only
\* log: step k carries iteration k - 1, its error is predictedTime -
\* goalTimeSeconds, only the last step can be within the tolerance, and
\* there are at most maxIterations steps
C21_HistoryIsOrderedLog ==
    /\ [](Invoked => OrderedLog(convergenceHistory))
    /\ [](pc \in {"final", "splits", "done"} =>
             /\ Len(convergenceHistory) >= 1
             /\ solverResult # None /\ pc # "final" =>
                    solverResult.convergenceHistory = convergenceHistory)
    /\ [][(pc \in {"loop", "final", "splits"}) =>
             IsPrefix(convergenceHistory, convergenceHistory')]_vars

\* a returned history of several steps that ends within the tolerance
C21_Witness ==
    /\ Returned
    /\ Len(solverResult.convergenceHistory) >= 3
    /\ Abs(solverResult.convergenceHistory[Len(solverResult.convergenceHistory)].error)
         <= tolerance

\* C26: in every SolverResult iterations is the number of ConvergenceSteps
\* of its convergenceHistory
C26_IterationsCountSteps ==
    Returned => solverResult.iterations = Len(solverResult.convergenceHistory)


-----------------------------------------------------------------------------
(* Route analysis *)

AnalysisCall == call # None /\ call.method = "analyzeRoute"

\* the largest (or smallest) value of field among the splits
ExtremeOf(splits, field, largest) ==
    CHOOSE v \in { splits[k][field] : k \in 1..Len(splits) } :
        \A k \in 1..Len(splits) :
            IF largest THEN splits[k][field] <= v ELSE splits[k][field] >= v

\* the earliest split whose field is value
EarliestWith(splits, field, value) ==
    splits[CHOOSE k \in 1..Len(splits) :
               /\ splits[k][field] = value
               /\ \A j \in 1..(k - 1) : splits[j][field] # value]

\* n * (sum of the squares) - (the square of the sum): n^2 times the
\* population variance
ScaledVariance(splits) ==
    LET n       == Len(splits)
        total   == SumFrom([k \in 1..n |-> splits[k].averagePace], 1)
        squares == SumFrom([k \in 1..n |-> splits[k].averagePace
                                             * splits[k].averagePace], 1)
    IN  n * squares - total * total

\* C24: analyzeRoute returns as hardestLap / easiestLap the earliest lap of
\* maximum / minimum averageGrade, as slowestLap / fastestLap the earliest
\* lap of maximum / minimum averagePace, and as paceVariation the population
\* standard deviation of the lap paces (here rounded down to 1 s/km)
C24_AnalysisPicksExtremes ==
    AnalysisCall =>
        LET splits == call.lapSplits
            n      == Len(call.lapSplits)
            r      == call.returned
        IN  /\ r.hardestLap = EarliestWith(splits, "averageGrade",
                                           ExtremeOf(splits, "averageGrade", TRUE))
            /\ r.easiestLap = EarliestWith(splits, "averageGrade",
                                           ExtremeOf(splits, "averageGrade", FALSE))
            /\ r.slowestLap = EarliestWith(splits, "averagePace",
                                           ExtremeOf(splits, "averagePace", TRUE))
            /\ r.fastestLap = EarliestWith(splits, "averagePace",
                                           ExtremeOf(splits, "averagePace", FALSE))
            /\ n * n * r.paceVariation * r.paceVariation <= ScaledVariance(splits)
            /\ n * n * (r.paceVariation + 1) * (r.paceVariation + 1)
                 > ScaledVariance(splits)

\* three laps with a tie for the steepest and for the slowest lap, and
\* paces that vary
C24_Witness ==
    /\ AnalysisCall
    /\ Len(call.lapSplits) = 3
    /\ call.lapSplits[2].averageGrade = call.lapSplits[3].averageGrade
    /\ call.lapSplits[2].averageGrade > call.lapSplits[1].averageGrade
    /\ call.lapSplits[1].averagePace = call.lapSplits[3].averagePace
    /\ call.lapSplits[1].averagePace > call.lapSplits[2].averagePace
    /\ call.returned.hardestLap.lapNumber = 2
    /\ call.returned.slowestLap.lapNumber = 1
    /\ call.returned.paceVariation > 0

-----------------------------------------------------------------------------
(* Effort levels *)

EffortCall == call # None /\ call.method = "calculateEffortLevel"

\* the labels from the easiest to the hardest
EffortRank(label) ==
    CASE label = "Very Fast" -> 1
      [] label = "Fast"      -> 2
      [] label = "Easy"      -> 3
      [] label = "Moderate"  -> 4
      [] label = "Hard"      -> 5
      [] label = "Very Hard" -> 6

\* C25 as amended: every average grade gets one of six labels: 'Very Hard'
\* exactly above 8%, 'Hard' in (4%, 8%], 'Moderate' in (1%, 4%], 'Easy' in
\* (-2%, 1%], 'Fast' in (-5%, -2%] and 'Very Fast' exactly at -5% and
\* below; the label never gets easier as the grade increases
C25_EffortBuckets ==
    EffortCall =>
        /\ call.returned \in { "Very Fast", "Fast", "Easy", "Moderate", "Hard",
                               "Very Hard" }
        /\ call.returned = "Very Hard" <=> call.grade > 800
        /\ call.returned = "Hard" <=> (call.grade > 400 /\ call.grade <= 800)
        /\ call.returned = "Moderate" <=> (call.grade > 100 /\ call.grade <= 400)
        /\ call.returned = "Easy" <=> (call.grade > -200 /\ call.grade <= 100)
        /\ call.returned = "Fast" <=> (call.grade > -500 /\ call.grade <= -200)
        /\ call.returned = "Very Fast" <=> call.grade <= -500
        /\ \A grade \in EffortGrades :
               grade >= call.grade =>
                   EffortRank(calculateEffortLevel(grade)) >= EffortRank(call.returned)

\* the call with a grade of exactly -5%
C25_Witness ==
    EffortCall /\ call.grade = -500 /\ call.returned = "Very Fast"

\* C25 as stated: 'Very Fast' exactly when the grade is below -5%
C25_VeryFastOnlyBelowMinusFive ==
    EffortCall => (call.returned = "Very Fast" <=> call.grade < -500)

-----------------------------------------------------------------------------
(* The damped update *)

\* the sign of an error
Sign(x) == IF x > 0 THEN 1 ELSE IF x < 0 THEN -1 ELSE 0

-----------------------------------------------------------------------------
(* Determinism *)

\* the repeated call has just returned
ReturnedAgain ==
    /\ pc = "done"
    /\ previous # None
    /\ previous.again
    /\ lapInterval = NoLaps

-----------------------------------------------------------------------------
(* The unsupported lap interval *)

\* C30: when calculateLapSplits fails because of an unsupported lap
\* interval, findBasePaceForGoalTime has not run and the solver's state
\* (downhillAdjustments, baselineElevation) is what it was before the call
C30_RejectedBeforeSolving ==
    [][pc' = "failed" =>
          /\ downhillAdjustments' = downhillAdjustments
          /\ baselineElevation' = baselineElevation
          /\ maxIterations' = maxIterations
          /\ tolerance' = tolerance
          /\ solverResult' = solverResult
          /\ convergenceHistory' = convergenceHistory
          /\ evaluations' = evaluations]_vars

\* a rejected call on a solver whose baseline elevation was set and whose
\* last solve left downhill records
C30_Witness ==
    /\ pc = "failed"
    /\ lapInterval \notin DOMAIN LAP_DISTANCES
    /\ baselineElevation # 0
    /\ downhillAdjustments # << >>
    /\ solverResult # None
    /\ solverResult.downhillAdjustments = downhillAdjustments

-----------------------------------------------------------------------------
(* Elevation gain and loss of a lap *)

\* C29: every LapSplit has elevationGain >= 0, elevationLoss >= 0 and
\* elevationGain - elevationLoss = elevationChange, the end elevation minus
\* the start elevation of the lap (elevations in cm, each segment's share
\* rounded to 1 cm)
C29_GainMinusLossIsChange ==
    pc = "done" =>
        \A k \in 1..Len(lapSplits) :
            /\ lapSplits[k].elevationGain >= 0
            /\ lapSplits[k].elevationLoss >= 0
            /\ lapSplits[k].elevationChange
                 = lapSplits[k].endElevation - lapSplits[k].startElevation
            /\ Abs(lapSplits[k].elevationGain - lapSplits[k].elevationLoss
                     - lapSplits[k].elevationChange) <= Len(gpxParser) - 1

\* a lap that starts and ends inside segments, with both a gain and a loss
C29_Witness ==
    /\ pc = "done"
    /\ \E k \in 1..Len(lapSplits) :
           /\ lapSplits[k].elevationGain > 0
           /\ lapSplits[k].elevationLoss > 0
           /\ \A i \in 1..Len(gpxParser) :
                  /\ gpxParser[i].distance # lapSplits[k].startDistance
                  /\ gpxParser[i].distance # lapSplits[k].endDistance

-----------------------------------------------------------------------------
(* The table lookups *)

\* x is inside the range of the table column xs
InTableRange(x, xs) == x >= xs[1] /\ x <= xs[Len(xs)]

\* C23: for every speed v in the table's range
\* getEquivFlatSpeed(lookupSpeed(v, 'energy_j_kg_s')) = v, and each lookup
\* returns NaN exactly when its argument is below the first or above the
\* last table row
C23_InverseLookupRoundTrips ==
    call # None =>
        /\ call.method = "lookupSpeed" =>
               (call.returned = NaN
                  <=> ~InTableRange(call.speedMs, BLACK_GAM_DATA.speed_m_s))
        /\ call.method = "getEquivFlatSpeed" =>
               (call.returned = NaN
                  <=> ~InTableRange(call.wKg, BLACK_GAM_DATA.energy_j_kg_s))
        /\ (/\ call.method = "getEquivFlatSpeed(lookupSpeed)"
            /\ InTableRange(call.speedMs, BLACK_GAM_DATA.speed_m_s)) =>
               call.returned = call.speedMs

\* a round trip through a speed strictly between two table rows
C23_Witness ==
    /\ call # None
    /\ call.method = "getEquivFlatSpeed(lookupSpeed)"
    /\ call.speedMs = 3333
    /\ call.wKg # NaN
    /\ call.returned = 3333

-----------------------------------------------------------------------------
(* The total time as a function of the base speed *)

TotalTimeCall == call # None /\ call.method = "calculateTotalTime"

\* C27: for a fixed route, baseline elevation and sub-segment length a
\* faster base speed never predicts a longer total time, over the whole
\* envelope and across the table's range boundaries (times in ms, compared
\* up to the rounding of the walk)
C27_FasterNeverSlower ==
    TotalTimeCall => call.fasterTime <= call.slowerTime + LapTimeSlack

\* both base speeds on the same side of the table's range boundaries
SameTableRegion(slower, faster) ==
    LET speed == BLACK_GAM_DATA.speed_m_s
    IN  \/ faster < speed[1]
        \/ slower > speed[Len(speed)]
        \/ InTableRange(slower, speed) /\ InTableRange(faster, speed)

\* between two base speeds on the same side of the range boundaries the
\* faster one never predicts a longer time
C27_MonotoneInsideRegion ==
    (TotalTimeCall /\ SameTableRegion(call.slower, call.faster)) =>
        call.fasterTime <= call.slowerTime + LapTimeSlack

-----------------------------------------------------------------------------
(* The downhill cap and the per-segment adjustment *)

CappedCall == call # None /\ call.method = "applyDownhillSpeedCap"

AdjustmentCall == call # None /\ call.method = "applyGAPAdjustment"

\* C16: for every grade below -8% the limitation factor of
\* applyDownhillSpeedCap lies in [0.4, 1]: it falls linearly from 1 at -8%
\* to 0.4 at -25% and is 0.4 for every steeper grade
C16_LimitationFactorBounded ==
    (CappedCall /\ call.grade < -800) =>
        /\ limitationFactor(call.grade) >= 4000
        /\ limitationFactor(call.grade) <= 10000
        /\ call.grade >= -2500 =>
               limitationFactor(call.grade)
                 = 10000 - RDiv(6000 * (-800 - call.grade), 1700)
        /\ call.grade < -2500 => limitationFactor(call.grade) = 4000

\* C17: for every grade below -8% and every positive base speed the speed
\* applyDownhillSpeedCap returns is between the base speed and 1.5 times the
\* base speed, whatever the theoretical speed; for every grade of -8% or
\* more it returns the theoretical speed
C17_CappedSpeedBetweenBaseAndSafe ==
    (CappedCall /\ call.basePaceMs > 0) =>
        IF call.grade < -800
        THEN /\ call.returned >= call.basePaceMs
             /\ 2 * call.returned <= 3 * call.basePaceMs
        ELSE call.returned = call.theoreticalSpeed

\* a theoretical speed above the safe speed brought down to 1.5 times the
\* base speed by the cap
C17_Witness ==
    /\ CappedCall /\ call.basePaceMs > 0 /\ call.grade < -800
    /\ call.theoreticalSpeed > call.returned
    /\ 2 * call.returned = 3 * call.basePaceMs

\* flatCr + deltaCr of applyGAPAdjustment
TotalCost(speedMs, grade) ==
    FlatCost(lookupSpeed(speedMs, "energy_j_kg_m")) + calcDeltaEC(grade)

\* C20: for a positive base speed, a grade in [-1, 1] and a positive
\* altitude factor, applyGAPAdjustment returns a finite, strictly positive
\* speed; when power / total cost is not finite or not positive, the speed
\* before the cap is base speed * (1 - clamp(10 * grade, -0.5, 0.8))
C20_AdjustmentPositive ==
    (/\ AdjustmentCall
     /\ call.basePaceMs > 0 /\ call.grade >= -10000 /\ call.grade <= 10000
     /\ calculateAltitudePenalty(call.segmentElevation, baselineElevation) > 0) =>
        /\ call.returned > 0
        /\ call.originalSpeed > 0
        /\ TotalCost(call.basePaceMs, call.grade) <= 0 =>
               call.originalSpeed = GradePenaltySpeed(call.basePaceMs, call.grade)

\* a call with a total cost below zero, where the fallback was taken
C20_Witness ==
    /\ AdjustmentCall
    /\ call.basePaceMs > 0
    /\ TotalCost(call.basePaceMs, call.grade) < 0
    /\ call.originalSpeed = GradePenaltySpeed(call.basePaceMs, call.grade)
    /\ call.returned > 0

-----------------------------------------------------------------------------
(* Altitude *)

\* every sub-segment of the route is at the baseline elevation
AtBaseline ==
    \A k \in 1..Len(SubSegments(0, totalDistance(gpxParser), segmentLength)) :
        getAverageElevation(gpxParser,
            SubSegments(0, totalDistance(gpxParser), segmentLength)[k].currentDistance,
            SubSegments(0, totalDistance(gpxParser), segmentLength)[k].segmentEnd)
          = baselineElevation

\* the fields of a SolverResult that the solve determines
Solved(result) ==
    [ basePaceMs         |-> result.basePaceMs,
      basePaceMinPerKm   |-> result.basePaceMinPerKm,
      finalError         |-> result.finalError,
      converged          |-> result.converged,
      iterations         |-> result.iterations,
      convergenceHistory |-> result.convergenceHistory,
      predictedTime      |-> result.predictedTime ]

\* C11: when the baseline elevation equals the elevation of every
\* sub-segment, calculateAltitudePenalty is exactly 1 there and the
\* SolverResult (base pace, predicted time, convergence history and the
\* rest) is the one of the solver without the altitude step
C11_NoAltitudeEffectAtBaseline ==
    (Returned /\ AtBaseline) =>
        /\ calculateAltitudePenalty(gpxParser[1].elevation, baselineElevation) = AltScale
        /\ Solved(solverResult)
             = Solved(findBasePaceForGoalTime_NoAltitude(gpxParser, goalTimeSeconds,
                                                         segmentLength, tolerance,
                                                         maxIterations))

\* a solve of several iterations on a flat route 600 m up, by a solver whose
\* baseline was set to 600 m
C11_Witness ==
    /\ Returned /\ AtBaseline
    /\ baselineElevation = 60000
    /\ solverResult.converged
    /\ Len(solverResult.convergenceHistory) >= 1

=============================================================================
